---- MODULE Spec2Model ----
(***************************************************************************)
(* Model of MonteCarloEngine5M (src/Monte_Carlo_SIM.py), the batched Monte *)
(* Carlo engine, of the integration helper and of the percentile report    *)
(* generator.  A run is followed statement group by statement group (pc);  *)
(* an exception propagates to the caller and ends the call, the objects    *)
(* and the process-wide generator staying as they are.  Between two calls  *)
(* every public call is possible: the constructor again, another run, a    *)
(* direct simulate_portfolio_batch, export_results of any dict a run has   *)
(* returned, the helper.  A behaviour makes at most MaxCalls calls, at     *)
(* most MaxRuns of them runs, all with the same arguments.                 *)
(*                                                                         *)
(* Spec follows the runs; MetricsSpec starts inside a run at the call of   *)
(* _calculate_metrics on a given array of returns and follows the export   *)
(* and the report calls after it.                                          *)
(*                                                                         *)
(* Numbers.  Reals are carried as integers in fixed units:                 *)
(*   weights              in units of 1/WeightScale                        *)
(*   expected_returns,                                                     *)
(*   volatilities         in units of 1/RateScale                          *)
(*   correlation_matrix,                                                   *)
(*   Cholesky factor L    in units of 1/CorrScale                          *)
(*   time_horizon         the fraction num/den of a year, a pair <<num,den>>*)
(* A terminal portfolio value is kept as the sequence of the terms the     *)
(* asset loop adds, one per asset: weight, initial price and the two parts *)
(* of the exponent (drift, in units of 1/(2*RateScale^2*252), and          *)
(* diffusion, in units of 1/(RateScale*CorrScale*sqrt(252))).  The empty   *)
(* sequence is the 0.0 that np.zeros puts in an array.  The initial        *)
(* portfolio value is kept as the products np.sum adds, their sum, and the *)
(* distance between np.sum's order of addition and the asset loop's; the   *)
(* exponent of a term is enclosed between two whole numbers, which decide  *)
(* whether exp underflows and whether final - initial keeps the value.    *)
(***************************************************************************)
EXTENDS Integers, Sequences, FiniteSets, TLC

\* ---------------------------------------------------------------- bounds
MaxSims == 3
MaxBatch == 3
MaxHorizonNum == 3
MaxRuns == 2
MaxCalls == 3
MaxLen == 3
WeightScale == 10
RateScale == 10
CorrScale == 5

\* ------------------------------------------------------ program constants
TradingDays == 252
SampleCap == 100000

\* ---------------------------------------------------------------- helpers
RECURSIVE SeqSum(_)
SeqSum(s) == IF s = << >> THEN 0 ELSE Head(s) + SeqSum(Tail(s))

\* a batch end that is not clamped to the array length
MinNoClamp(a, b) == a

Min(a, b) == IF a <= b THEN a ELSE b

Abs(x) == IF x >= 0 THEN x ELSE -x

\* floor of the square root of n >= 0 (np.sqrt inside LAPACK's potrf)
ISqrt(n) == CHOOSE r \in 0..n : r * r <= n /\ n < (r + 1) * (r + 1)

\* the batch count with the division truncated instead of rounded up
CeilDivTruncated(a, b) == IF b > 0 THEN a \div b ELSE -(a \div (-b))

\* int(np.ceil(a / b)) for a >= 0 and b # 0 (true division, then ceil)
CeilDiv(a, b) == IF b > 0 THEN (a + b - 1) \div b ELSE -(a \div (-b))

Zeros(n) == [k \in 1..n |-> << >>]

\* ------------------------------------------------ the generator's stream
\* np.random.seed(42) seeds numpy's global generator, a Mersenne Twister
\* (MT19937).  rk_random[w + 1] is the low ten bits of the w-th 32-bit word it
\* puts out after the seed (w from 0).
rk_random ==
  << 102, 435, 860, 270, 106, 71, 700, 20, 614, 121, 466, 214, 330, 458, 87, 372, 99, 871, 663, 130,
     661, 308, 769, 343, 491, 413, 805, 385, 191, 955, 276, 160, 459, 313, 21, 252, 747, 856, 560, 474,
     58, 510, 681, 1023, 475, 699, 975, 782, 189, 957, 686, 957, 562, 875, 566, 243, 831, 504, 130, 484,
     818, 646, 20, 840, 166, 273, 387, 600, 315, 13, 241, 1017, 776, 345, 564, 897, 339, 91, 366, 955,
     454, 427, 508, 775, 942, 34, 205, 80, 931, 561, 871, 387, 1, 1021, 389, 565, 105, 771, 821, 476,
     702, 401, 729, 555, 161, 201, 957, 995, 269, 862, 815, 270, 455, 461, 726, 251, 1016, 701, 295, 724,
     719, 748, 337, 878, 52, 791, 921, 216, 763, 187, 379, 492, 40, 156, 14, 812, 64, 856, 838, 520,
     343, 128, 1003, 647, 471, 62, 138, 498, 592, 391, 674, 418, 288, 378, 772, 489, 230, 1017, 40, 27,
     134, 200, 839, 779, 929, 32, 47, 502, 406, 573, 727, 804, 98, 683, 871, 725, 986, 546, 960, 738,
     612, 942, 461, 642, 768, 4, 217, 502, 766, 397, 870, 794, 392, 206, 14, 857, 553, 891, 460, 690,
     574, 863, 742, 240, 563, 1020, 95, 899, 733, 484, 406, 230, 748, 654, 170, 540, 35, 524, 159, 838,
     698, 242, 85, 795, 577, 681, 556, 573, 952, 1012, 645, 795, 27, 619, 555, 339, 797, 957, 330, 639,
     505, 1014, 347, 472, 230, 189, 224, 384, 376, 282, 957, 632, 627, 972, 744, 258, 358, 709, 455, 410,
     648, 317, 676, 224, 818, 233, 683, 663, 974, 826, 373, 671, 607, 471, 232, 691, 112, 829, 496, 441,
     563, 267, 509, 806, 385, 386, 112, 612, 624, 951, 80, 698, 112, 1, 641, 219, 565, 854, 996, 735,
     224, 384, 402, 637, 129, 52, 683, 729, 671, 709, 415, 246, 835, 438, 202, 183, 122, 400, 766, 293,
     279, 836, 883, 609, 197, 981, 906, 510, 751, 143, 608, 200, 123, 186, 325, 463, 348, 770, 659, 763,
     954, 931, 402, 345, 962, 510, 146, 147, 863, 710, 819, 488, 928, 935, 639, 550, 337, 871, 640, 778,
     987, 952, 472, 945, 150, 414, 989, 297, 610, 262, 763, 143, 345, 623, 1016, 1011, 571, 880, 1, 896,
     303, 253, 651, 452, 36, 159, 1018, 1014, 8, 232, 98, 658, 815, 207, 130, 403, 151, 53, 119, 672,
     919, 627, 586, 624, 967, 419, 421, 103, 851, 253, 226, 111, 509, 472, 98, 152, 860, 913, 895, 877,
     337, 705, 821, 162, 719, 956, 680, 995, 160, 579, 800, 397, 276, 815, 915, 503, 895, 391, 134, 194,
     400, 639, 32, 687, 459, 954, 882, 469, 374, 21, 749, 669, 37, 229, 364, 562, 437, 775, 282, 26,
     225, 276, 797, 608, 283, 878, 959, 480, 452, 1019, 828, 815, 658, 515, 546, 191, 48, 511, 16, 171,
     219, 157, 476, 45, 372, 517, 98, 891, 744, 36, 279, 348, 496, 301, 180, 606, 98, 699, 992, 115,
     190, 252, 980, 927, 982, 160, 255, 322, 127, 17, 792, 1001, 734, 565, 569, 322, 871, 685, 791, 625,
     287, 942, 853, 662, 961, 638, 154, 489, 385, 985, 784, 103, 928, 392, 810, 245, 175, 38, 476, 681,
     758, 537, 866, 817, 920, 407, 524, 827, 505, 902, 824, 35, 684, 19, 320, 775, 511, 1005, 399, 653,
     971, 882, 470, 142, 91, 353, 833, 799, 726, 958, 853, 50, 664, 697, 574, 189, 124, 149, 313, 569,
     341, 304, 691, 681, 837, 782, 53, 1002, 443, 612, 992, 263, 52, 571, 1003, 619, 4, 102, 195, 773,
     876, 991, 883, 349, 46, 866, 822, 935, 819, 655, 268, 369, 635, 105, 669, 658, 656, 119, 830, 786,
     603, 57, 950, 345, 740, 473, 116, 829, 790, 126, 392, 907, 1012, 640, 57, 633, 512, 750, 801, 95,
     637, 117, 559, 600, 487, 236, 884, 896, 271, 188, 998, 703, 446, 580, 789, 860, 246, 962, 75, 153,
     655, 434, 996, 85, 696, 284, 973, 219, 68, 46, 1008, 93, 749, 957, 1011, 452, 203, 911, 217, 473,
     431, 340, 550, 611, 288, 253, 733, 356, 22, 761, 521, 757, 836, 99, 801, 179, 222, 905, 761, 658,
     441, 607, 768, 1015, 324, 1004, 515, 15, 791, 335, 758, 257, 496, 987, 895, 159, 474, 851, 663, 907,
     689, 674, 379, 544, 928, 956, 690, 426, 612, 267, 834, 576, 416, 167, 841, 42, 555, 284, 396, 11,
     606, 301, 897, 252, 498, 753, 34, 726, 848, 89, 775, 604, 921, 969, 601, 1021, 417, 114, 616, 902,
     195, 825, 500, 625, 492, 74, 412, 375, 419, 728, 276, 1020, 760, 675, 393, 868, 456, 919, 191, 738,
     688, 98, 1007, 547, 977, 1008, 998, 95, 663, 662, 189, 735, 36, 779, 368, 694, 524, 278, 216, 866,
     872, 797, 272, 880, 61, 595, 879, 728, 341, 396, 698, 18, 176, 611, 395, 444, 232, 914, 75, 264,
     454, 795, 717, 734, 383, 563, 850, 505, 366, 143, 884, 68, 98, 395, 24, 947, 890, 468, 483, 564,
     150, 143, 568, 38, 108, 692, 41, 185, 934, 397, 222, 633, 132, 162, 214, 732, 234, 842, 657, 750,
     587, 8, 73, 953, 491, 912, 252, 229, 518, 173, 652, 167, 169, 392, 945, 794, 633, 193, 516, 28,
     164, 421, 338, 647, 495, 364, 832, 341, 499, 656, 510, 326, 216, 300, 131, 803, 69, 251, 414, 786,
     444, 875, 181, 166, 90, 713, 857, 530, 38, 125, 450, 172, 652, 753, 219, 637, 57, 659, 475, 455,
     828, 894, 360, 934, 0, 386, 972, 347, 189, 504, 190, 507, 368, 408, 823, 928, 933, 116, 133, 57,
     555, 684, 671, 172, 828, 814, 148, 79, 885, 212, 202, 763, 228, 675, 226, 658, 531, 440, 401, 46,
     232, 304, 525, 142, 414, 512, 372, 565, 885, 258, 655, 470, 952, 970, 11, 329, 735, 783, 967, 357,
     971, 407, 667, 372, 7, 121, 347, 675, 89, 647, 697, 315, 177, 539, 731, 868, 40, 739, 703, 922,
     501, 958, 144, 200, 928, 1012, 723, 460, 731, 751, 924, 908, 557, 546, 252, 389, 593, 882, 255, 708,
     814, 920, 449, 9, 823, 797, 241, 250, 876, 4, 118, 1015, 800, 373, 64, 145, 223, 238, 176, 778,
     852, 281, 62, 216, 853, 826, 794, 688, 460, 928, 609, 104, 98, 510, 384, 404, 1007, 822, 517, 475,
     976, 708, 862, 644, 869, 770, 436, 22, 996, 564, 676, 713, 457, 82, 144, 84, 77, 456, 877, 0,
     50, 684, 716, 771, 445, 448, 880, 487, 799, 33, 347, 94, 71, 550, 153, 249, 673, 437, 117, 770,
     890, 305, 267, 960, 53, 235, 388, 989, 733, 762, 824, 400, 623, 766, 302, 918, 206, 228, 852, 909,
     577, 74, 434, 102, 421, 703, 763, 737, 805, 305, 97, 849, 797, 334, 858, 434, 446, 993, 307, 248,
     165, 480, 983, 334, 1019, 541, 758, 105, 562, 80, 132, 796, 899, 137, 183, 400, 329, 784, 507, 851,
     983, 68, 545, 773, 52, 449, 204, 125, 746, 42, 751, 970, 882, 110, 760, 662, 182, 847, 94, 970,
     373, 911, 519, 899, 359, 899, 695, 280, 194, 863, 194, 666, 92, 671, 945, 60, 633, 50, 402, 788,
     4, 465, 603, 681, 828, 533, 404, 837, 512, 644, 232, 523, 345, 45, 545, 944, 77, 729, 812, 922,
     72, 793, 248, 46, 120, 213, 238, 55, 349, 106, 830, 47, 572, 336, 25, 803, 256, 7, 624, 866,
     252, 691, 718, 302, 638, 55, 725, 525, 473, 27, 982, 77, 215, 385, 364, 665, 525, 698, 311, 882,
     6, 2, 622, 918, 749, 362, 750, 507, 1004, 273, 505, 805, 738, 882, 14, 191, 984, 630, 484, 27,
     713, 38, 952, 272, 230, 85, 473, 125, 811, 536, 144, 524, 211, 24, 579, 393, 66, 232, 108, 145,
     110, 227, 110, 469, 33, 622, 775, 935, 368, 747, 594, 553, 424, 612, 517, 691, 281, 319, 737, 442,
     951, 314, 876, 965, 740, 376, 288, 436, 661, 276, 709, 581, 502, 623, 515, 349, 842, 445, 829, 349,
     606, 663, 822, 136, 758, 898, 242, 542, 39, 228, 547, 919, 222, 5, 321, 467, 731, 74, 3, 846,
     645, 117, 880, 605, 503, 997, 946, 573, 440, 193, 846, 714, 391, 25, 434, 172, 299, 644, 325, 409,
     117, 835, 786, 723, 224, 531, 112, 139, 558, 0, 89, 653, 319, 549, 804, 893, 138, 510, 867, 844,
     1002, 258, 672, 901, 689, 1015, 9, 260, 918, 649, 171, 897, 12, 167, 641, 595, 320, 318, 612, 328,
     784, 776, 970, 910, 919, 549, 1014, 418, 605, 94, 816, 580, 317, 955, 235, 945, 333, 884, 375, 458,
     136, 929, 587, 994, 546, 512, 295, 319, 917, 571, 831, 348, 839, 778, 872, 228, 269, 827, 797, 290,
     724, 164, 4, 850, 378, 77, 409, 573, 131, 600, 748, 41, 88, 401, 295, 839, 294, 615, 525, 799,
     690, 636, 421, 864, 22, 574, 142, 992, 664, 144, 224, 1006, 502, 961, 973, 820, 615, 103, 946, 38,
     946, 197, 645, 578, 390, 178, 967, 553, 447, 499, 14, 622, 668, 288, 1011, 477, 230, 922, 419, 156,
     549, 440, 96, 1020, 996, 410, 950, 288, 253, 195, 597, 833, 521, 516, 634, 841, 864, 117, 805, 908,
     158, 814, 227, 876, 215, 947, 695, 14, 156, 647, 260, 156, 46, 323, 843, 684, 129, 410, 94, 626,
     754, 931, 291, 793, 810, 282, 68, 659, 10, 253, 841, 871, 549, 133, 711, 22, 814, 345, 301, 362,
     395, 217, 140, 615, 957, 209, 984, 992, 622, 615, 827, 682, 459, 1003, 355, 1007, 323, 132, 887, 804,
     839, 126, 105, 1008, 603, 798, 377, 904, 1013, 50, 28, 461, 295, 296, 725, 778, 406, 768, 813, 612,
     404, 345, 621, 419, 181, 982, 824, 0, 830, 949, 566, 370, 935, 910, 660, 430, 968, 308, 136, 201,
     435, 312, 116, 665, 936, 802, 574, 243, 536, 601, 74, 805, 385, 902, 209, 474, 417, 346, 528, 639,
     938, 954, 875, 762, 178, 181, 663, 24, 966, 179, 709, 500, 855, 160, 176, 284, 62, 1002, 661, 665,
     155, 881, 468, 48, 966, 848, 83, 360, 688, 147, 629, 341, 475, 62, 700, 359, 560, 326, 768, 735,
     140, 989, 214, 434, 890, 951, 722, 317, 31, 669, 284, 304, 428, 476, 285, 143, 423, 18, 17, 768,
     589, 370, 174, 1009, 193, 501, 987, 112, 113, 221, 677, 946, 830, 643, 896, 263, 924, 54, 870, 642,
     799, 777, 457, 978, 877, 161, 379, 992, 86, 54, 475, 799, 177, 390, 348, 7, 832, 312, 758, 834,
     983, 982, 442, 766, 1020, 327, 53, 760, 238, 228, 578, 50, 608, 603, 1006, 263, 417, 802, 95, 87,
     77, 287, 119, 813, 490, 911, 451, 499, 164, 181, 468, 909, 734, 822, 943, 977, 6, 329, 774, 672,
     150, 84, 146, 623, 380, 914, 547, 284, 699, 81, 513, 896, 814, 708, 915, 522, 745, 1022, 385, 706,
     470, 118, 395, 531, 260, 804, 933, 255, 733, 904, 225, 52, 939, 866, 499, 505, 853, 363, 279, 592,
     713, 157, 631, 58, 1005, 726, 127, 735, 720, 881, 114, 208, 525, 520, 551, 961, 236, 280, 358, 200,
     757, 277, 234, 493, 3, 665, 441, 28, 108, 609, 726, 804, 74, 837, 145, 127, 852, 41, 355, 40,
     933, 33, 16, 676, 152, 997, 377, 587, 598, 628, 873, 341, 980, 26, 824, 286, 645, 730, 167, 609,
     267, 748, 1016, 820, 454, 905, 684, 400, 921, 980, 475, 701, 633, 557, 575, 129, 1019, 821, 362, 704,
     818, 692, 291, 370, 793, 28, 148, 778, 295, 10, 511, 675, 112, 186, 806, 743, 226, 309, 97, 54,
     622, 663, 757, 405, 68, 311, 288, 761, 547, 750, 147, 466, 738, 243, 490, 848, 957, 506, 364, 1002,
     481, 200, 153, 449, 500, 72, 712, 295, 16, 640, 216, 60, 938, 615, 41, 24, 38, 802, 130, 497,
     228, 107, 171, 434, 477, 101, 865, 523, 274, 612, 43, 954, 1018, 816, 956, 16, 329, 568, 822, 496,
     814, 11, 317, 591, 215, 338, 775, 990, 660, 80, 726, 484, 373, 975, 709, 199, 536, 465, 88, 267,
     654, 570, 921, 488, 876, 537, 46, 287, 777, 15, 710, 400, 918, 793, 980, 85, 249, 390, 781, 334,
     628, 518, 136, 882, 687, 839, 497, 826, 726, 476, 593, 222, 989, 371, 934, 994, 401, 442, 489, 614,
     272, 525, 158, 151, 994, 619, 187, 812, 97, 130, 804, 170, 935, 985, 182, 982, 363, 38, 526, 887,
     496, 515, 348, 981, 920, 396, 721, 160, 15, 492, 425, 107, 893, 449, 310, 738, 169, 545, 413, 250,
     758, 780, 140, 273, 415, 607, 738, 890, 38, 813, 1011, 28 >>

\* The normals come from the polar method, two at a time: pairs of doubles
\* (two words each) are drawn until the point they give lies inside the unit
\* circle.  rk_gauss_words[w + 1] is the number of words that loop takes when
\* it starts at word w.
rk_gauss_words ==
  << 4, 4, 8, 4, 4, 4, 4, 4, 4, 4, 8, 4, 8, 4, 4, 4, 4, 4, 12, 4,
     8, 4, 8, 4, 4, 16, 4, 8, 4, 12, 4, 4, 4, 8, 4, 8, 4, 4, 4, 4,
     4, 4, 4, 8, 4, 8, 4, 4, 4, 4, 4, 4, 4, 4, 4, 4, 4, 4, 4, 4,
     4, 4, 12, 4, 12, 8, 8, 4, 8, 4, 4, 4, 4, 8, 4, 4, 4, 4, 4, 4,
     4, 4, 4, 4, 8, 4, 4, 4, 4, 4, 4, 4, 4, 4, 4, 4, 4, 4, 12, 8,
     12, 4, 8, 4, 8, 4, 4, 4, 4, 4, 12, 4, 8, 4, 8, 4, 4, 8, 4, 4,
     4, 4, 4, 4, 4, 4, 4, 4, 4, 4, 4, 4, 4, 4, 16, 8, 8, 4, 12, 4,
     4, 4, 8, 8, 8, 8, 4, 4, 4, 4, 4, 4, 8, 4, 4, 4, 4, 4, 8, 8,
     4, 4, 4, 4, 4, 4, 4, 4, 4, 4, 4, 4, 4, 4, 4, 4, 4, 4, 4, 4,
     4, 8, 4, 4, 4, 4, 4, 4, 4, 8, 4, 8, 4, 4, 4, 4, 8, 4, 8, 4,
     4, 4, 4, 4, 4, 4, 4, 4, 4, 4, 4, 4, 4, 4, 4, 8, 8, 4, 4, 4,
     4, 4, 8, 4, 8, 4, 4, 4, 4, 4, 4, 4, 4, 4, 8, 4, 4, 4, 4, 4,
     8, 4, 4, 4, 4, 4, 4, 4, 4, 8, 4, 8, 4, 4, 8, 4, 4, 4, 4, 4,
     4, 4, 4, 4, 4, 4, 4, 4, 4, 4, 4, 4, 4, 4, 4, 4, 4, 4, 8, 4,
     8, 4, 4, 4, 4, 4, 4, 12, 8, 8, 4, 8, 4, 4, 4, 4, 8, 4, 4, 4,
     4, 4, 4, 4, 4, 4, 4, 4, 8, 4, 4, 4, 4, 4, 4, 4, 4, 4, 4, 4,
     4, 4, 4, 4, 4, 4, 4, 4, 8, 4, 4, 4, 4, 4, 8, 4, 4, 4, 4, 4,
     8, 4, 4, 4, 4, 4, 4, 4, 4, 8, 4, 4, 4, 4, 4, 4, 8, 4, 4, 4,
     4, 4, 8, 4, 8, 4, 4, 4, 4, 4, 4, 8, 4, 4, 4, 4, 4, 8, 4, 8,
     8, 4, 8, 4, 4, 4, 4, 4, 4, 4, 4, 4, 4, 4, 8, 4, 4, 4, 4, 12,
     4, 8, 8, 8, 12, 4, 4, 4, 8, 4, 12, 4, 4, 8, 8, 8, 8, 4, 4, 4,
     4, 4, 4, 4, 4, 8, 4, 8, 4, 4, 4, 4, 4, 4, 4, 4, 4, 4, 4, 4,
     4, 4, 4, 4, 4, 4, 4, 4, 4, 4, 8, 4, 4, 4, 4, 4, 4, 4, 4, 4,
     4, 4, 4, 4, 4, 4, 4, 4, 4, 4, 4, 4, 8, 4, 4, 8, 4, 8, 16, 4,
     8, 4, 12, 4, 4, 4, 8, 8, 8, 4, 4, 4, 4, 4, 8, 4, 8, 8, 4, 4,
     4, 4, 4, 4, 4, 4, 4, 4, 4, 4, 4, 4, 4, 12, 4, 8, 4, 8, 4, 4,
     8, 4, 8, 4, 4, 4, 4, 4, 4, 4, 4, 8, 4, 4, 4, 4, 4, 4, 4, 4,
     4, 4, 4, 4, 8, 4, 4, 8, 4, 12, 4, 4, 4, 8, 4, 4, 4, 4, 4, 8,
     4, 8, 4, 4, 4, 4, 4, 4, 4, 4, 4, 4, 4, 8, 4, 8, 4, 4, 4, 4,
     8, 8, 8, 8, 4, 4, 4, 4, 4, 4, 4, 4, 4, 8, 4, 4, 4, 4, 8, 4,
     4, 4, 4, 4, 4, 4, 4, 12, 8, 12, 4, 8, 4, 8, 4, 4, 4, 4, 4, 4,
     4, 4, 12, 4, 8, 8, 8, 4, 4, 4, 4, 4, 4, 8, 4, 4, 4, 4, 4, 4,
     4, 8, 4, 8, 4, 4, 8, 4, 8, 4, 4, 4, 4, 4, 4, 8, 4, 4, 4, 4,
     4, 8, 16, 4, 12, 4, 12, 16, 8, 4, 8, 12, 4, 12, 4, 8, 4, 8, 4, 4,
     4, 4, 4, 4, 4, 4, 4, 4, 4, 8, 4, 12, 4, 4, 4, 8, 4, 8, 4, 4,
     4, 4, 4, 4, 4, 4, 8, 4, 4, 8, 4, 8, 4, 4, 4, 4, 4, 4, 4, 4,
     4, 4, 4, 4, 4, 4, 4, 4, 4, 4, 4, 4, 16, 4, 16, 4, 12, 4, 12, 4,
     8, 4, 8, 4, 4, 4, 4, 4, 4, 4, 4, 4, 8, 4, 8, 4, 4, 4, 4, 4,
     4, 4, 4, 4, 4, 8, 4, 4, 4, 4, 4, 4, 4, 4, 4, 4, 4, 4, 8, 4,
     4, 4, 4, 4, 4, 4, 4, 4, 4, 4, 8, 4, 4, 4, 4, 4, 4, 4, 4, 4,
     8, 4, 4, 4, 4, 4, 4, 4, 4, 4, 4, 12, 12, 8, 8, 8, 8, 4, 4, 4,
     4, 4, 8, 4, 4, 4, 4, 4, 4, 8, 4, 4, 4, 4, 4, 4, 4, 8, 4, 20,
     4, 4, 8, 16, 4, 12, 4, 12, 4, 8, 4, 8, 4, 4, 4, 4, 4, 8, 8, 8,
     4, 4, 4, 4, 4, 4, 8, 4, 4, 4, 4, 4, 8, 4, 4, 8, 4, 4, 12, 4,
     8, 4, 8, 4, 4, 8, 4, 4, 12, 4, 8, 4, 8, 4, 4, 4, 4, 4, 8, 4,
     4, 4, 4, 4, 4, 4, 8, 4, 4, 4, 4, 4, 4, 4, 4, 4, 8, 4, 8, 4,
     4, 4, 4, 4, 4, 4, 4, 4, 4, 4, 4, 4, 4, 4, 4, 4, 16, 4, 12, 8,
     12, 4, 8, 4, 8, 4, 4, 8, 4, 8, 8, 4, 4, 4, 4, 4, 4, 8, 4, 4,
     4, 4, 4, 8, 4, 8, 4, 4, 4, 4, 12, 4, 12, 8, 8, 8, 8, 4, 4, 4,
     4, 4, 4, 4, 4, 4, 4, 4, 4, 4, 4, 4, 4, 4, 12, 4, 8, 4, 8, 4,
     4, 8, 4, 4, 4, 4, 4, 4, 4, 4, 12, 8, 12, 8, 8, 4, 8, 4, 4, 4,
     4, 8, 4, 8, 12, 4, 8, 4, 8, 4, 4, 4, 4, 4, 8, 4, 8, 8, 4, 4,
     4, 4, 4, 4, 8, 4, 4, 4, 4, 12, 4, 12, 4, 8, 4, 8, 12, 4, 4, 4,
     8, 4, 8, 4, 4, 4, 4, 4, 8, 4, 8, 4, 4, 4, 4, 4, 4, 4, 8, 4,
     4, 4, 4, 4, 4, 4, 4, 12, 4, 8, 4, 8, 4, 4, 4, 4, 4, 4, 4, 4,
     4, 4, 4, 12, 4, 8, 4, 8, 4, 4, 4, 4, 8, 4, 8, 4, 4, 4, 4, 4,
     4, 8, 4, 4, 8, 4, 8, 4, 4, 4, 4, 4, 4, 4, 4, 4, 4, 4, 4, 4,
     4, 4, 4, 4, 4, 4, 4, 4, 12, 4, 8, 4, 8, 4, 4, 4, 4, 8, 4, 8,
     4, 4, 4, 4, 4, 4, 4, 4, 4, 4, 4, 4, 12, 4, 12, 4, 8, 4, 8, 4,
     4, 4, 4, 4, 4, 4, 4, 4, 4, 4, 4, 4, 4, 4, 4, 4, 8, 4, 8, 4,
     4, 4, 4, 4, 8, 4, 8, 4, 4, 4, 4, 4, 4, 8, 4, 4, 4, 4, 4, 4,
     8, 4, 4, 4, 4, 4, 12, 4, 8, 4, 8, 12, 4, 8, 4, 8, 4, 4, 4, 4,
     4, 4, 4, 4, 4, 4, 4, 4, 4, 4, 4, 4, 4, 4, 8, 8, 8, 8, 4, 4,
     4, 4, 4, 4, 4, 8, 4, 8, 4, 4, 4, 4, 4, 4, 4, 4, 4, 4, 4, 4,
     8, 4, 4, 8, 4, 4, 4, 4, 8, 4, 4, 4, 4, 4, 4, 4, 4, 4, 4, 4,
     4, 4, 4, 4, 4, 4, 4, 4, 4, 4, 4, 4, 4, 4, 4, 4, 4, 4, 4, 4,
     8, 4, 4, 4, 4, 8, 4, 8, 8, 4, 4, 4, 4, 4, 4, 24, 4, 20, 4, 20,
     8, 16, 8, 16, 4, 12, 4, 12, 4, 8, 8, 8, 4, 4, 4, 4, 8, 8, 4, 8,
     4, 4, 4, 4, 4, 4, 4, 4, 4, 4, 4, 4, 4, 4, 4, 4, 4, 8, 4, 8,
     4, 4, 4, 4, 4, 4, 4, 4, 4, 4, 4, 4, 4, 4, 4, 4, 4, 4, 4, 4,
     4, 4, 4, 4, 4, 4, 12, 4, 8, 4, 8, 4, 4, 4, 4, 12, 4, 8, 4, 8,
     4, 4, 4, 4, 4, 4, 4, 4, 4, 8, 12, 4, 8, 4, 8, 4, 4, 8, 4, 8,
     8, 4, 8, 4, 4, 4, 4, 8, 4, 8, 4, 4, 4, 4, 4, 4, 4, 4, 4, 4,
     4, 4, 4, 4, 4, 4, 4, 4, 4, 4, 4, 4, 4, 4, 4, 4, 4, 4, 4, 4,
     4, 4, 4, 4, 4, 4, 4, 4, 4, 4, 4, 4, 4, 4, 4, 8, 4, 4, 4, 4,
     8, 4, 4, 4, 4, 4, 4, 4, 4, 8, 4, 4, 4, 4, 4, 4, 4, 8, 4, 8,
     4, 4, 4, 4, 4, 4, 8, 4, 4, 4, 4, 4, 4, 4, 4, 4, 4, 4, 12, 4,
     8, 4, 8, 4, 4, 4, 4, 4, 4, 4, 4, 4, 4, 4, 4, 8, 4, 4, 4, 4,
     4, 4, 4, 4, 4, 4, 4, 8, 8, 4, 4, 4, 4, 4, 4, 4, 4, 4, 8, 4,
     4, 8, 4, 8, 4, 4, 4, 4, 8, 4, 8, 4, 4, 12, 4, 12, 4, 8, 4, 8 >>

\* the generator after np.random.seed: no word taken, no normal kept.  The
\* state is the number of words taken and the normal kept for the next call.
rk_seed == [word |-> 0, gauss |-> << >>]

\* A standard normal is named by the word its pair starts at and its place in
\* the pair: <<w, 1>> is handed out at once, <<w, 2>> is kept and handed out
\* by the next call.  Two draws are the same number when their names are.
rk_gauss(g) ==
  IF g.gauss # << >>
    THEN [value |-> g.gauss, state |-> [word |-> g.word, gauss |-> << >>]]
    ELSE [value |-> <<g.word, 1>>,
          state |-> [word |-> g.word + rk_gauss_words[g.word + 1],
                     gauss |-> <<g.word, 2>>]]

\* n calls of rk_gauss, the values in call order
RECURSIVE rk_fill(_, _, _)
rk_fill(g, n, acc) ==
  IF n <= 0 THEN [values |-> acc, state |-> g]
  ELSE LET d == rk_gauss(g) IN rk_fill(d.state, n - 1, Append(acc, d.value))

\* the smallest 2^k - 1 that is at least max
RECURSIVE rk_mask(_, _)
rk_mask(max, m) == IF m >= max THEN m ELSE rk_mask(max, 2 * m + 1)

\* rk_interval(max): words are masked and rejected until one is at most max
RECURSIVE rk_interval(_, _)
rk_interval(max, w) ==
  LET v == rk_random[w + 1] % (rk_mask(max, 0) + 1)
  IN IF v <= max THEN [value |-> v, word |-> w + 1] ELSE rk_interval(max, w + 1)

\* one step of the shuffle of np.random.permutation: the element at i is
\* swapped with the one at j = rk_interval(i) (x is 1-based)
ShuffleStep(x, i, w) ==
  LET d == rk_interval(i, w)
      j == d.value
  IN [x |-> SubSeq([k \in 1..Len(x) |->
                      IF k = i + 1 THEN x[j + 1]
                      ELSE IF k = j + 1 THEN x[i + 1] ELSE x[k]], 1, Len(x)),
      word |-> d.word]

\* the steps i = hi, hi - 1, ..., lo of the loop, in that order: the upper
\* half of the steps, then the lower half from where it ended (a shuffle keeps
\* the length, so the test only has the upper half evaluated first)
RECURSIVE ShuffleSteps(_, _, _, _)
ShuffleSteps(x, hi, lo, w) ==
  IF hi < lo THEN [x |-> x, word |-> w]
  ELSE IF hi = lo THEN ShuffleStep(x, hi, w)
  ELSE LET mid == (hi + lo) \div 2
           upper == ShuffleSteps(x, hi, mid + 1, w)
       IN IF Len(upper.x) = Len(x)
            THEN ShuffleSteps(upper.x, mid, lo, upper.word)
            ELSE upper

\* the shuffle of np.random.permutation: for i in reversed(range(1, n))
Shuffle(x, i, w) == ShuffleSteps(x, i, 1, w)

\* ---------------------------------------------------------------- inputs
Cfg(w, p, mu, sig, C) ==
  [weights |-> w, initial_prices |-> p, expected_returns |-> mu,
   volatilities |-> sig, correlation_matrix |-> C]

Identity(n) == [i \in 1..n |-> [j \in 1..n |-> IF i = j THEN CorrScale ELSE 0]]

Half == WeightScale \div 2

\* an expected return so negative that exp underflows within two trading days
CrashRate == 100000

Corr2(r) == << <<CorrScale, r>>, <<r, CorrScale>> >>

Corr3(a, b, c) ==
  << <<CorrScale, a, b>>, <<a, CorrScale, c>>, <<b, c, CorrScale>> >>

Configs ==
  { Cfg(<<Half, WeightScale - Half>>, <<3, 5>>, <<1, 2>>, <<2, 1>>, Identity(2)),
    Cfg(<<Half, WeightScale - Half>>, <<3, 5>>, <<1, 2>>, <<2, 1>>, Corr2(3)),
    Cfg(<<Half, WeightScale - Half>>, <<3, 5>>, <<1, 0>>, <<0, 0>>, Identity(2)),
    Cfg(<<Half, WeightScale - Half>>, <<3, 5>>, <<0, 0>>, <<0, 0>>, Corr2(3)),
    Cfg(<<1, Half, WeightScale - Half - 1>>, <<3, 5, 2>>, <<0, 0, 0>>, <<0, 0, 0>>,
        Identity(3)),
    Cfg(<<WeightScale>>, <<3>>, <<1>>, <<2>>, Identity(1)),
    \* eight assets of price 1.0 with no drift and no volatility
    Cfg(<<WeightScale - 7, 1, 1, 1, 1, 1, 1, 1>>, <<1, 1, 1, 1, 1, 1, 1, 1>>,
        <<0, 0, 0, 0, 0, 0, 0, 0>>, <<0, 0, 0, 0, 0, 0, 0, 0>>, Identity(8)),
    \* an asset that loses all but nothing: expected return -CrashRate a year
    Cfg(<<WeightScale>>, <<3>>, <<-CrashRate * RateScale>>, <<1>>, Identity(1)),
    \* weights that do not sum to 1
    Cfg(<<Half, 1>>, <<3, 5>>, <<1, 2>>, <<2, 1>>, Identity(2)),
    \* a singular correlation matrix (two perfectly correlated assets)
    Cfg(<<Half, WeightScale - Half>>, <<3, 5>>, <<1, 2>>, <<2, 1>>, Corr2(CorrScale)),
    \* correlation matrices that are not positive semi-definite
    Cfg(<<Half, WeightScale - Half>>, <<3, 5>>, <<1, 2>>, <<2, 1>>,
        Corr2(CorrScale + 2)),
    Cfg(<<Half, 1, WeightScale - Half - 1>>, <<3, 5, 2>>, <<1, 2, 0>>, <<2, 1, 1>>,
        Corr3(CorrScale - 1, CorrScale - 1, 1 - CorrScale)),
    \* per-asset lists whose length differs from the number of weights
    Cfg(<<Half, WeightScale - Half>>, <<3, 5>>, <<1, 2, 3>>, <<2, 1>>, Identity(2)),
    Cfg(<<Half, WeightScale - Half>>, <<3, 5>>, <<1, 2>>, <<2>>, Identity(2)),
    Cfg(<<Half, WeightScale - Half>>, <<3, 5>>, <<1, 2>>, <<2, 1>>, Identity(3)),
    Cfg(<<Half, WeightScale - Half>>, <<3, 5, 7>>, <<1, 2>>, <<2, 1>>, Identity(2)),
    Cfg(<<WeightScale>>, <<3, 5>>, <<1, 2>>, <<2, 1>>, Identity(1)),
    \* a short position: a negative weight
    Cfg(<<WeightScale + 1, -1>>, <<3, 5>>, <<1, 2>>, <<2, 1>>, Identity(2)) }

HorizonDens == {256}

Horizons == {<<n, d>> : n \in 0..MaxHorizonNum, d \in HorizonDens}

VARIABLES
  n_simulations, batch_size, n_batches,      \* the engine's fields
  portfolio_config, time_horizon,            \* arguments of run_5M_simulation
  pc, error,                                 \* position in the code, exception raised
  rng_pos,                                   \* normals drawn since np.random.seed
  rng_state,                                 \* the global generator: words taken, normal kept
  initial_portfolio_value, all_final_values, \* locals of run_5M_simulation
  batch_idx, batch_start, batch_end, batch_n_sims,
  L, Z_indep, Z_corr, portfolio_final_values,\* locals of simulate_portfolio_batch
  results,                                   \* what run_5M_simulation returned
  run_count, run_start_pos, run_start_state, \* history: runs started, generator then
  batch_log, write_count, metrics_calls,     \* history: slices stored, writes, calls
  results_log,                               \* the dicts the runs returned, in order
  call_count,                                \* public calls made besides the runs
  export_count,                              \* calls of export_results among them
  returns, metrics,                          \* argument and result of _calculate_metrics
  exported, sample_indices,                  \* the files export_results wrote, its draw
  generator_metrics, report_files,           \* PercentileReportGenerator.metrics, returned paths
  mpc,                                       \* position in the metrics and report code
  integration_results                        \* what run_monte_carlo_simulation returned

vars == <<n_simulations, batch_size, n_batches, portfolio_config, time_horizon,
          pc, error, rng_pos, rng_state, initial_portfolio_value, all_final_values,
          batch_idx, batch_start, batch_end, batch_n_sims,
          L, Z_indep, Z_corr, portfolio_final_values, results,
          run_count, run_start_pos, run_start_state, batch_log, write_count,
          metrics_calls, results_log, call_count, export_count,
          returns, metrics, exported, sample_indices, generator_metrics,
          report_files, mpc, integration_results>>

engine == <<n_simulations, batch_size, n_batches>>
args == <<portfolio_config, time_horizon>>
batch_vars == <<batch_idx, batch_start, batch_end, batch_n_sims>>
tensors == <<L, Z_indep, Z_corr, portfolio_final_values>>
run_history == <<run_count, run_start_pos, run_start_state, batch_log, write_count,
                 metrics_calls, results_log>>
calls == <<results_log, call_count, export_count>>
history == <<run_history, call_count, export_count>>
rng == <<rng_pos, rng_state>>
simulated == <<engine, args, pc, error, rng, initial_portfolio_value,
               all_final_values, batch_vars, tensors, results, run_history,
               export_count>>
simulation == <<simulated, call_count>>
report == <<returns, metrics, exported, sample_indices, generator_metrics,
            report_files, mpc>>
helper == <<integration_results>>

None == "None"

\* a float given by a division: the fraction num/den, 0/0 being nan
Rat(a, b) == [num |-> a, den |-> b]

\* an attribute never assigned, and the empty dict
Unset == << >>

\* the calls followed: every pair of constructor arguments with one portfolio
\* and horizon, and every portfolio and horizon with one pair of constructor
\* arguments (two batches, the last one short)
InputSlice ==
  \/ /\ portfolio_config = Cfg(<<Half, WeightScale - Half>>, <<3, 5>>, <<1, 2>>,
                               <<2, 1>>, Corr2(3))
     /\ time_horizon = <<MaxHorizonNum, 256>>
  \/ /\ n_simulations = MaxSims
     /\ batch_size = MaxBatch - 1

Init ==
  /\ n_simulations \in 0..MaxSims
  /\ batch_size \in (-1)..MaxBatch
  /\ portfolio_config \in Configs
  /\ time_horizon \in Horizons
  /\ InputSlice
  /\ n_batches = 0
  /\ pc = "new"
  /\ error = None
  /\ rng_pos = 0
  /\ rng_state = rk_seed
  /\ initial_portfolio_value = 0
  /\ all_final_values = << >>
  /\ batch_idx = 0 /\ batch_start = 0 /\ batch_end = 0 /\ batch_n_sims = 0
  /\ L = << >> /\ Z_indep = << >> /\ Z_corr = << >>
  /\ portfolio_final_values = << >>
  /\ results = None
  /\ run_count = 0 /\ run_start_pos = 0 /\ run_start_state = rk_seed
  /\ batch_log = << >>
  /\ write_count = << >> /\ metrics_calls = 0
  /\ results_log = << >> /\ call_count = 0 /\ export_count = 0
  /\ returns = << >> /\ metrics = None /\ exported = None
  /\ sample_indices = << >>
  /\ generator_metrics = Unset /\ report_files = None
  /\ mpc = "off"
  /\ integration_results = Unset

\* an exception that is swallowed, the loop going on with the batch
RaiseAndRetry(e) ==
  /\ pc' = "loop"
  /\ error' = e
  /\ L' = << >> /\ Z_indep' = << >> /\ Z_corr' = << >>
  /\ portfolio_final_values' = << >>

\* An exception leaves the function: the locals of simulate_portfolio_batch die.
Raise(e) ==
  /\ pc' = "failed"
  /\ error' = e
  /\ L' = << >> /\ Z_indep' = << >> /\ Z_corr' = << >>
  /\ portfolio_final_values' = << >>

\* no call is executing: nothing was constructed yet, the engine was
\* constructed, the last run returned, or the last call raised
BetweenCalls == pc \in {"new", "idle", "done", "failed"}

\* the calls made on the engine and the helper so far, runs included, leave
\* room for one more
CallsLeft == run_count + call_count < MaxCalls

\* an engine object exists: __init__ has returned (it raises on a batch size
\* of 0 and on nothing else)
HasEngine == pc \in {"idle", "done", "failed"} /\ batch_size # 0

\* MonteCarloEngine5M.__init__(n_simulations, batch_size): the batch count, then
\* np.random.seed(42) on the process-wide generator.  The first call makes the
\* engine the model follows; a call between two calls of the engine (after a
\* run that returned or raised as well) makes another engine with the same
\* arguments, and seeds the same generator again.
MonteCarloEngine5M_init ==
  /\ BetweenCalls
  /\ pc = "new" \/ CallsLeft
  /\ call_count' = IF pc = "new" THEN call_count ELSE call_count + 1
  /\ IF batch_size = 0
       THEN /\ pc' = "failed" /\ error' = "ZeroDivisionError"
            /\ UNCHANGED <<n_batches, rng>>
       ELSE /\ n_batches' = CeilDiv(n_simulations, batch_size)
            /\ rng_pos' = 0
            /\ rng_state' = rk_seed
            /\ pc' = IF pc = "new" THEN "idle" ELSE pc
            /\ UNCHANGED error
  /\ UNCHANGED <<n_simulations, batch_size, args, initial_portfolio_value,
                 all_final_values, batch_vars, tensors, results, run_count,
                 run_start_pos, run_start_state, batch_log, write_count,
                 metrics_calls, results_log, export_count>>

\* --------------------------------------------------------- float64 sums
\* A float64 near a multiple of 0.1 is the record [k, e]: the number
\* (k * 2^56 + e) / (10 * 2^56), k tenths and an error of e / 10 units of
\* 2^-56.  Every float64 of magnitude >= 1/16 is a whole number of such units,
\* and so is every sum of them.

\* 2^m mod 10 for m >= 1
Pow2Mod10(m) == <<2, 4, 8, 6>>[((m - 1) % 4) + 1]

\* (k * 2^56 + e) mod (10 * 2^j)
GridRem(k, e, j) == ((2 ^ j) * ((k * Pow2Mod10(56 - j)) % 10) + e) % (10 * (2 ^ j))

\* the number is at least 2^(52 + j) units: its float64 neighbours are 2^j apart
AtLeastBinade(a, e, j) ==
  16 * a > 10 * (2 ^ j) \/ (16 * a = 10 * (2 ^ j) /\ e >= 0)

RECURSIVE BinadeFrom(_, _, _)
BinadeFrom(a, e, j) ==
  IF AtLeastBinade(a, e, j + 1) THEN BinadeFrom(a, e, j + 1) ELSE j

\* round to nearest, ties to even: the error part of the float64 nearest to
\* (k * 2^56 + e) / (10 * 2^56)
FloatRound(k, e) ==
  IF k = 0 THEN e
  ELSE LET j == BinadeFrom(IF k > 0 THEN k ELSE -k, IF k > 0 THEN e ELSE -e, 0)
           grid == 10 * (2 ^ j)
           rem == GridRem(k, e, j)
           odd == GridRem(k, e, j + 1) >= grid
           up == 2 * rem > grid \/ (2 * rem = grid /\ odd)
       IN IF rem = 0 THEN e ELSE e - rem + (IF up THEN grid ELSE 0)

\* the float64 of the literal k/10
Tenth(k) == [k |-> k, e |-> FloatRound(k, 0)]

\* x + y in float64
FloatAdd(x, y) == [k |-> x.k + y.k, e |-> FloatRound(x.k + y.k, x.e + y.e)]

\* res += a[i] for the n elements after index lo, in index order
RECURSIVE SequentialSum(_, _, _, _)
SequentialSum(r, lo, n, res) ==
  IF n = 0 THEN res
  ELSE SequentialSum(r, lo + 1, n - 1, FloatAdd(res, Tenth(r[lo + 1])))

\* r[t] += a[i + t] over the blocks of 8: the accumulator of lane t
RECURSIVE LaneSum(_, _, _, _)
LaneSum(r, i, blocks, res) ==
  IF blocks = 0 THEN res
  ELSE LaneSum(r, i + 8, blocks - 1, FloatAdd(res, Tenth(r[i])))

\* numpy's pairwise summation of the n elements after index lo (the inner loop
\* of np.add.reduce on a contiguous float64 array): a plain loop below 8
\* elements, eight accumulators up to 128, two halves above
RECURSIVE PairwiseSum(_, _, _)
PairwiseSum(r, lo, n) ==
  IF n < 8 THEN SequentialSum(r, lo, n, [k |-> 0, e |-> 0])
  ELSE IF n <= 128
    THEN LET lane(t) == LaneSum(r, lo + 8 + t, (n \div 8) - 1, Tenth(r[lo + t]))
             res == FloatAdd(FloatAdd(FloatAdd(lane(1), lane(2)),
                                      FloatAdd(lane(3), lane(4))),
                             FloatAdd(FloatAdd(lane(5), lane(6)),
                                      FloatAdd(lane(7), lane(8))))
         IN SequentialSum(r, lo + n - (n % 8), n % 8, res)
  ELSE LET n2 == (n \div 2) - ((n \div 2) % 8)
       IN FloatAdd(PairwiseSum(r, lo, n2), PairwiseSum(r, lo + n2, n - n2))

\* ------------------------------------------- simulate_portfolio_batch, pure
\* n_steps = int(T * 252): the product is truncated
NSteps(T) == (T[1] * TradingDays) \div T[2]

\* np.linalg.cholesky, row by row (Cholesky-Banachiewicz), in units of 1/CorrScale
\* the place of entry (i, j), j <= i, of the lower triangle taken row by row
CholIndex(i, j) == (i * (i - 1)) \div 2 + j

\* sum over k < j of L[i][k] * L[j][k], from the entries computed so far
CholDotOf(tab, i, j) ==
  SeqSum([k \in 1..(j - 1) |-> tab[CholIndex(i, k)] * tab[CholIndex(j, k)]])

\* the entries of the lower triangle up to (i, j), each computed once
RECURSIVE CholTable(_, _, _)
CholTable(C, i, j) ==
  IF i = 1 /\ j = 0 THEN << >>
  ELSE IF j = 0 THEN CholTable(C, i - 1, i - 1)
  ELSE LET tab == CholTable(C, i, j - 1)
       IN Append(tab,
                 IF i = j THEN ISqrt(CorrScale * C[i][i] - CholDotOf(tab, i, i))
                 ELSE (CorrScale * C[i][j] - CholDotOf(tab, i, j))
                        \div tab[CholIndex(j, j)])

CholDot(C, i, j) == CholDotOf(CholTable(C, i, j - 1), i, j)
CholEntry(C, i, j) ==
  IF j > i THEN 0 ELSE CholTable(C, i, j)[CholIndex(i, j)]

\* the leading minors up to row m have positive pivots; LinAlgError otherwise
RECURSIVE CholDefinite(_, _)
CholDefinite(C, m) ==
  \/ m = 0
  \/ /\ CholDefinite(C, m - 1)
     /\ CorrScale * C[m][m] - CholDot(C, m, m) > 0
     /\ CholEntry(C, m, m) > 0

Cholesky(C) ==
  LET tab == CholTable(C, Len(C), Len(C))
  IN [i \in 1..Len(C) |->
        [j \in 1..Len(C) |-> IF j > i THEN 0 ELSE tab[CholIndex(i, j)]]]

\* a generator reseeded for every batch: the draws start at the seed again
StandardNormalReseeded(g, b, n_steps, n_assets) ==
  rk_fill(rk_seed, b * n_steps * n_assets, << >>)

\* np.random.standard_normal((b, n_steps, n_assets)) drawn from the generator
\* in state g: the values flattened in C order, element (path, t, i) at
\* (path*n_steps + t)*n_assets + i, and the state of the generator afterwards
StandardNormal(g, b, n_steps, n_assets) ==
  rk_fill(g, b * n_steps * n_assets, << >>)

\* the product taken on Z_indep.reshape(n_assets, -1).T: row r gathers its
\* components at stride (number of rows) instead of side by side
MatmulLTStrided(Z, Lf, n_assets) ==
  [k \in 1..Len(Z) |->
     LET r == (k - 1) \div n_assets
         i == ((k - 1) % n_assets) + 1
     IN [j \in 1..n_assets |->
           <<Lf[i][j], Z[(j - 1) * (Len(Z) \div n_assets) + r + 1]>>]]

\* (Z_flat @ L.T).reshape(b, n_steps, n_assets): row r of Z_flat times L
\* transposed.  An entry is the sum over j of L[i][j] * Z[r][j], kept as the
\* sequence of its products <<L[i][j], Z[r][j]>>
MatmulLT(Z, Lf, n_assets) ==
  [k \in 1..Len(Z) |->
     LET r == (k - 1) \div n_assets
         i == ((k - 1) % n_assets) + 1
     IN [j \in 1..n_assets |-> <<Lf[i][j], Z[r * n_assets + j]>>]]

\* the shocks np.sum(returns, axis=1) adds up for asset i of path b (b from 0),
\* one per time step
ShockSum(Zc, b, i, n_steps, n_assets) ==
  [t \in 1..n_steps |-> Zc[(b * n_steps + (t - 1)) * n_assets + i]]

\* sigma * sqrt(dt) * (the sum of the shocks): << >> is the 0.0 of a zero
\* volatility or of no time step at all
Diffusion(sigma, shocks) ==
  IF sigma = 0 \/ shocks = << >> THEN << >> ELSE <<sigma, shocks>>

\* final_prices * weights[i] for one path: the term the asset loop adds
Term(cfg, Zc, b, i, n_steps, n_assets) ==
  LET mu == cfg.expected_returns[i]
      sigma == cfg.volatilities[i]
  IN [w |-> cfg.weights[i],
      p0 |-> cfg.initial_prices[i],
      drift |-> n_steps * (2 * mu * RateScale - sigma * sigma),
      diff |-> Diffusion(sigma, ShockSum(Zc, b, i, n_steps, n_assets))]

\* the asset loop started at the second asset, for i in range(1, n_assets)
PathValueSkipFirst(cfg, Zc, b, n_steps, n_assets) ==
  [i \in 1..(n_assets - 1) |-> Term(cfg, Zc, b, i + 1, n_steps, n_assets)]

PathValue(cfg, Zc, b, n_steps, n_assets) ==
  [i \in 1..n_assets |-> Term(cfg, Zc, b, i, n_steps, n_assets)]

\* weights * initial_prices with numpy's broadcasting of two 1-D arrays: the
\* products, in units of 1/WeightScale
Broadcastable(w, p) == Len(w) = Len(p) \/ Len(w) = 1 \/ Len(p) = 1
Products(w, p) ==
  LET n == IF Len(w) >= Len(p) THEN Len(w) ELSE Len(p)
      a == [k \in 1..n |-> w[IF Len(w) = 1 THEN 1 ELSE k]
                          * p[IF Len(p) = 1 THEN 1 ELSE k]]
  IN SubSeq(a, 1, n)

\* the products are the floats of whole tenths: weights given in tenths, each
\* times the price 1.0
TenthProducts(w, p) ==
  WeightScale = 10 /\ \A k \in 1..Len(p) : p[k] = 1

\* np.sum(weights * initial_prices), line 115: the products `of`, their exact
\* sum `sum`, and how far np.sum lies from the index-order loop of line 94 over
\* the same products, `off` in units of 2^-56 / 10.  Below 8 elements np.sum is
\* that same loop; from 8 on it adds in eight lanes, which is evaluated for
\* products of whole tenths and left as the unevaluated np_sum otherwise.
BroadcastSum(w, p) ==
  LET a == Products(w, p)
      n == Len(a)
  IN IF n < 8
       THEN [sum |-> SeqSum(a), of |-> a, off |-> 0]
     ELSE IF TenthProducts(w, p)
       THEN [sum |-> SeqSum(a), of |-> a,
             off |-> PairwiseSum(a, 0, n).e
                       - SequentialSum(a, 0, n, [k |-> 0, e |-> 0]).e]
     ELSE [sum |-> SeqSum(a), of |-> a, np_sum |-> "pairwise"]

\* every term of the path has the exponent 0: the path is worth sum w * p0
ExponentFree(path) ==
  \A t \in 1..Len(path) : path[t].drift = 0 /\ path[t].diff = << >>

\* the products w * p0 the asset loop adds when every exponent is 0
PathProducts(path) ==
  SubSeq([t \in 1..Len(path) |-> path[t].w * path[t].p0], 1, Len(path))

\* a standard normal of the legacy generator is at most sqrt(-2 ln 2^-104) < 13
\* in magnitude
NormalBound == 13
\* np.exp(x) is 0.0 for x <= -ExpUnderflow (the first 0.0 is at -745.14)
ExpUnderflow == 746
\* np.exp(x) is a positive normal float64 for |x| <= ExpNormal
ExpNormal == 700
\* exp(x) < 2^-54 for x <= -LostInRounding: final - initial rounds to -initial
LostInRounding == 38
\* exp(x) > 2^-52 for x >= -KeptInRounding: final - initial is above -initial
KeptInRounding == 36

\* the exponent drift is kept in units of 1 / ExponentUnits
ExponentUnits == 2 * RateScale * RateScale * TradingDays

\* an upper bound of |sigma * sqrt(dt) * sum of the shocks|: every normal at
\* NormalBound, every Cholesky entry one unit larger than its integer part, and
\* sqrt(252) taken as its integer part
ShockWeight(shocks) ==
  SeqSum([t \in 1..Len(shocks) |->
            SeqSum([j \in 1..Len(shocks[t]) |-> Abs(shocks[t][j][1]) + 1])])
DiffusionBound(term) ==
  IF term.diff = << >> THEN 0
  ELSE CeilDiv(Abs(term.diff[1]) * NormalBound * ShockWeight(term.diff[2]),
               RateScale * CorrScale * ISqrt(TradingDays))

\* whole numbers below and above the exponent of final_prices, line 91
ExponentFloor(term) == (term.drift \div ExponentUnits) - DiffusionBound(term)
ExponentCeil(term) == DiffusionBound(term) - ((-term.drift) \div ExponentUnits)

\* the path equals 0.0: every term is a product with exp(x) = 0.0 (a weight of
\* 0 times a finite price gives 0.0 too)
ZeroValue(path) ==
  \A t \in 1..Len(path) :
    \/ ExponentCeil(path[t]) <= -ExpUnderflow
    \/ path[t].w = 0 /\ ExponentCeil(path[t]) <= ExpNormal

\* the path is a positive finite float: no term is negative or overflows and
\* one has a positive weight and an exp(x) that does not underflow
PositiveValue(path) ==
  /\ Len(path) >= 1
  /\ \A t \in 1..Len(path) :
       path[t].w >= 0 /\ path[t].p0 > 0 /\ ExponentCeil(path[t]) <= ExpNormal
  /\ \E t \in 1..Len(path) :
       path[t].w > 0 /\ ExponentFloor(path[t]) >= -ExpNormal

\* the path is worth less than half an ulp of the initial value sum w * p0 it
\* started from: every weighted term has an exponent of -LostInRounding or less
NegligibleValue(path, initial) ==
  /\ Len(path) >= 1 /\ PathProducts(path) = initial.of /\ initial.sum > 0
  /\ \A t \in 1..Len(path) :
       /\ path[t].w >= 0 /\ path[t].p0 > 0
       /\ ExponentCeil(path[t]) <= (IF path[t].w = 0 THEN ExpNormal
                                    ELSE -LostInRounding)

\* line 159: (final - initial) / initial for one path.  An element np.zeros
\* made and no batch wrote is 0.0 and gives -1.0.  A path whose terms all have
\* exponent 0 is the index-order sum of the products, which np.sum of the same
\* products equals or misses by `off`.  A path negligible against the initial
\* value gives -1.0.  Any other stays the unevaluated expression.
PathReturn(path, initial) ==
  IF path = << >> THEN Rat(-initial.sum, initial.sum)
  ELSE IF /\ ExponentFree(path) /\ PathProducts(path) = initial.of
          /\ "off" \in DOMAIN initial
    THEN IF initial.off = 0
           THEN Rat(0, initial.sum)
           ELSE [final_minus_initial |-> -initial.off, initial |-> initial]
  ELSE IF NegligibleValue(path, initial) /\ ~ExponentFree(path)
    THEN Rat(-initial.sum, initial.sum)
  ELSE [final |-> path, initial |-> initial]

\* ------------------------------------------------------ run_5M_simulation
\* a run that seeds the generator again before it starts
run_5M_simulation_start_reseeded ==
  /\ HasEngine
  /\ run_count < MaxRuns /\ CallsLeft
  /\ run_count' = run_count + 1
  /\ rng_pos' = 0
  /\ rng_state' = rk_seed
  /\ run_start_pos' = 0
  /\ run_start_state' = rk_seed
  /\ batch_log' = << >>
  /\ metrics_calls' = 0
  /\ mpc' = "off"
  /\ IF ~Broadcastable(portfolio_config.weights, portfolio_config.initial_prices)
       THEN /\ Raise("ValueError")
            /\ UNCHANGED <<initial_portfolio_value, all_final_values, batch_vars,
                           write_count>>
       ELSE /\ initial_portfolio_value' =
                 BroadcastSum(portfolio_config.weights, portfolio_config.initial_prices)
            /\ all_final_values' = Zeros(n_simulations)
            /\ write_count' = [k \in 1..n_simulations |-> 0]
            /\ batch_idx' = 0
            /\ pc' = "loop"
            /\ error' = None
            /\ UNCHANGED <<batch_start, batch_end, batch_n_sims, tensors>>
  /\ UNCHANGED <<engine, args, results, calls, returns, metrics, exported,
                 sample_indices, generator_metrics, report_files>>

\* lines 104-118: initial portfolio value, allocation of the result array.
\* The engine takes a run after a run that returned and after a call that
\* raised alike; the dicts of the runs before stay with the caller.
run_5M_simulation_start ==
  /\ HasEngine
  /\ run_count < MaxRuns /\ CallsLeft
  /\ run_count' = run_count + 1
  /\ run_start_pos' = rng_pos
  /\ run_start_state' = rng_state
  /\ batch_log' = << >>
  /\ metrics_calls' = 0
  /\ mpc' = "off"
  /\ IF ~Broadcastable(portfolio_config.weights, portfolio_config.initial_prices)
       THEN /\ Raise("ValueError")
            /\ UNCHANGED <<initial_portfolio_value, all_final_values, batch_vars,
                           write_count>>
       ELSE /\ initial_portfolio_value' =
                 BroadcastSum(portfolio_config.weights, portfolio_config.initial_prices)
            /\ all_final_values' = Zeros(n_simulations)
            /\ write_count' = [k \in 1..n_simulations |-> 0]
            /\ batch_idx' = 0
            /\ pc' = "loop"
            /\ error' = None
            /\ UNCHANGED <<batch_start, batch_end, batch_n_sims, tensors>>
  /\ UNCHANGED <<engine, args, rng, results, calls, returns, metrics, exported,
                 sample_indices, generator_metrics, report_files>>

\* lines 121-124: for batch_idx in range(self.n_batches)
run_5M_simulation_loop ==
  /\ pc = "loop"
  /\ IF batch_idx < n_batches
       THEN /\ batch_start' = batch_idx * batch_size
            /\ batch_end' = Min(batch_idx * batch_size + batch_size, n_simulations)
            /\ batch_n_sims' =
                 Min(batch_idx * batch_size + batch_size, n_simulations)
                   - batch_idx * batch_size
            /\ pc' = "cholesky"
       ELSE /\ pc' = "returns"
            /\ UNCHANGED <<batch_start, batch_end, batch_n_sims>>
  /\ UNCHANGED <<engine, args, error, rng, initial_portfolio_value,
                 all_final_values, batch_idx, tensors, results, history>>

\* the factorisation done after the batch's normals were drawn
cholesky_after_draw ==
  /\ pc = "cholesky"
  /\ LET drawn == StandardNormal(rng_state, batch_n_sims, NSteps(time_horizon),
                                 Len(portfolio_config.weights))
     IN /\ rng_pos' = rng_pos + Len(drawn.values)
        /\ rng_state' = drawn.state
  /\ LET C == portfolio_config.correlation_matrix
     IN IF CholDefinite(C, Len(C))
          THEN /\ L' = Cholesky(C)
               /\ pc' = "draw"
               /\ UNCHANGED <<error, Z_indep, Z_corr, portfolio_final_values>>
          ELSE Raise("LinAlgError")
  /\ UNCHANGED <<engine, args, initial_portfolio_value, all_final_values,
                 batch_vars, results, history>>

\* lines 67-72: L = np.linalg.cholesky(correlation_matrix)
simulate_portfolio_batch_cholesky ==
  /\ pc = "cholesky"
  /\ LET C == portfolio_config.correlation_matrix
     IN IF CholDefinite(C, Len(C))
          THEN /\ L' = Cholesky(C)
               /\ pc' = "draw"
               /\ UNCHANGED <<error, Z_indep, Z_corr, portfolio_final_values>>
          ELSE Raise("LinAlgError")
  /\ UNCHANGED <<engine, args, rng, initial_portfolio_value, all_final_values,
                 batch_vars, results, history>>

\* the draw of a generator that is seeded again for every batch
draw_after_reseed ==
  /\ pc = "draw"
  /\ LET drawn == StandardNormal(rk_seed, batch_n_sims, NSteps(time_horizon),
                                 Len(portfolio_config.weights))
     IN /\ Z_indep' = drawn.values
        /\ rng_pos' = Len(drawn.values)
        /\ rng_state' = drawn.state
  /\ pc' = "correlate"
  /\ UNCHANGED <<engine, args, error, initial_portfolio_value, all_final_values,
                 batch_vars, L, Z_corr, portfolio_final_values, results, history>>

\* lines 75-76: Z_indep = np.random.standard_normal(...)
simulate_portfolio_batch_draw ==
  /\ pc = "draw"
  /\ LET drawn == StandardNormal(rng_state, batch_n_sims, NSteps(time_horizon),
                                 Len(portfolio_config.weights))
     IN /\ Z_indep' = drawn.values
        /\ rng_pos' = rng_pos + Len(drawn.values)
        /\ rng_state' = drawn.state
  /\ pc' = "correlate"
  /\ UNCHANGED <<engine, args, error, initial_portfolio_value, all_final_values,
                 batch_vars, L, Z_corr, portfolio_final_values, results, history>>

\* line 77: Z_corr = (Z_flat @ L.T).reshape(...)
simulate_portfolio_batch_correlate ==
  /\ pc = "correlate"
  /\ LET n_assets == Len(portfolio_config.weights)
     IN IF Len(L) # n_assets
          THEN Raise("ValueError")
          ELSE /\ Z_corr' = MatmulLT(Z_indep, L, n_assets)
               /\ pc' = "reduce"
               /\ UNCHANGED <<error, L, Z_indep, portfolio_final_values>>
  /\ UNCHANGED <<engine, args, rng, initial_portfolio_value, all_final_values,
                 batch_vars, results, history>>

\* lines 80-96: the asset loop, for i in range(n_assets)
simulate_portfolio_batch_reduce ==
  /\ pc = "reduce"
  /\ LET n_assets == Len(portfolio_config.weights)
         n_steps == NSteps(time_horizon)
     IN IF \/ Len(portfolio_config.expected_returns) < n_assets
           \/ Len(portfolio_config.volatilities) < n_assets
           \/ Len(portfolio_config.initial_prices) < n_assets
          THEN Raise("IndexError")
          ELSE /\ portfolio_final_values' =
                    [b \in 1..batch_n_sims |->
                       PathValue(portfolio_config, Z_corr, b - 1, n_steps, n_assets)]
               /\ pc' = "store"
               /\ UNCHANGED <<error, L, Z_indep, Z_corr>>
  /\ UNCHANGED <<engine, args, rng, initial_portfolio_value, all_final_values,
                 batch_vars, results, history>>

\* lines 67-96 as one call on the generator in state g: the exception that
\* leaves simulate_portfolio_batch (None when it returns), the array it
\* returns, and the generator afterwards.  The factorisation comes before the
\* draw, the product and the asset loop after it.
BatchOutcome(cfg, T, b, g) ==
  LET n_assets == Len(cfg.weights)
      n_steps == NSteps(T)
      C == cfg.correlation_matrix
      drawn == StandardNormal(g, b, n_steps, n_assets)
  IN IF ~CholDefinite(C, Len(C))
       THEN [error |-> "LinAlgError", values |-> << >>, state |-> g, drawn |-> 0]
     ELSE IF Len(C) # n_assets
       THEN [error |-> "ValueError", values |-> << >>, state |-> drawn.state,
             drawn |-> Len(drawn.values)]
     ELSE IF \/ Len(cfg.expected_returns) < n_assets
             \/ Len(cfg.volatilities) < n_assets
             \/ Len(cfg.initial_prices) < n_assets
       THEN [error |-> "IndexError", values |-> << >>, state |-> drawn.state,
             drawn |-> Len(drawn.values)]
     ELSE [error |-> None,
           values |-> LET Zc == MatmulLT(drawn.values, Cholesky(C), n_assets)
                      IN [p \in 1..b |-> PathValue(cfg, Zc, p - 1, n_steps, n_assets)],
           state |-> drawn.state,
           drawn |-> Len(drawn.values)]

\* the numbers of paths asked for in a direct call
BatchCallSizes == {1, 2}

\* simulate_portfolio_batch called by the caller itself, not by a run, with the
\* arrays of the configuration, the horizon and a number of paths: the draws
\* are taken from the process-wide generator, and no field of the engine and
\* nothing a run stored changes
simulate_portfolio_batch ==
  /\ HasEngine
  /\ CallsLeft
  /\ call_count' = call_count + 1
  /\ \E b \in BatchCallSizes :
       LET out == BatchOutcome(portfolio_config, time_horizon, b, rng_state)
       IN /\ rng_pos' = rng_pos + out.drawn
          /\ rng_state' = out.state
          /\ IF out.error # None
               THEN Raise(out.error)
               ELSE /\ portfolio_final_values' = out.values
                    /\ L' = << >> /\ Z_indep' = << >> /\ Z_corr' = << >>
                    /\ UNCHANGED <<pc, error>>
  /\ UNCHANGED <<engine, args, initial_portfolio_value, all_final_values,
                 batch_vars, results, run_count, run_start_pos, run_start_state,
                 batch_log, write_count, metrics_calls, results_log, export_count>>

\* the store of a loop that has the metrics computed inside its body, after
\* every batch
store_then_metrics ==
  /\ pc = "store"
  /\ all_final_values' =
       [k \in 1..Len(all_final_values) |->
          IF batch_start < k /\ k <= batch_end
            THEN portfolio_final_values[k - batch_start]
            ELSE all_final_values[k]]
  /\ write_count' =
       [k \in 1..Len(write_count) |->
          IF batch_start < k /\ k <= batch_end
            THEN write_count[k] + 1 ELSE write_count[k]]
  /\ batch_log' = Append(batch_log, <<batch_start, batch_end>>)
  /\ L' = << >> /\ Z_indep' = << >> /\ Z_corr' = << >>
  /\ batch_idx' = batch_idx + 1
  /\ pc' = "returns"
  /\ UNCHANGED <<engine, args, error, rng, initial_portfolio_value,
                 batch_start, batch_end, batch_n_sims, portfolio_final_values,
                 results, run_count, run_start_pos, run_start_state, metrics_calls,
                 calls>>

\* line 142: all_final_values[batch_start:batch_end] = batch_final_values
run_5M_simulation_store ==
  /\ pc = "store"
  /\ all_final_values' =
       [k \in 1..Len(all_final_values) |->
          IF batch_start < k /\ k <= batch_end
            THEN portfolio_final_values[k - batch_start]
            ELSE all_final_values[k]]
  /\ write_count' =
       [k \in 1..Len(write_count) |->
          IF batch_start < k /\ k <= batch_end
            THEN write_count[k] + 1 ELSE write_count[k]]
  /\ batch_log' = Append(batch_log, <<batch_start, batch_end>>)
  /\ L' = << >> /\ Z_indep' = << >> /\ Z_corr' = << >>
  /\ batch_idx' = batch_idx + 1
  /\ pc' = "loop"
  /\ UNCHANGED <<engine, args, error, rng, initial_portfolio_value,
                 batch_start, batch_end, batch_n_sims, portfolio_final_values,
                 results, run_count, run_start_pos, run_start_state, metrics_calls,
                 calls>>

\* line 159: returns = (all_final_values - initial_portfolio_value) / initial_portfolio_value
run_5M_simulation_returns ==
  /\ pc = "returns"
  /\ returns' = [k \in 1..Len(all_final_values) |->
                   PathReturn(all_final_values[k], initial_portfolio_value)]
  /\ pc' = "metrics"
  /\ UNCHANGED <<engine, args, error, rng, initial_portfolio_value, all_final_values,
                 batch_vars, tensors, results, history>>

\* =================================================== _calculate_metrics
\* Returns are carried in units of 0.1 (so the thresholds 0.10, 0.20, 0.50 are
\* 1, 2, 5).  A scalar the code computes by a division is the fraction
\* num/den; the fraction 0/0 is the nan numpy gives for the mean of an empty
\* slice.  std, skewness and kurtosis are kept as the power sums they are a
\* function of.

RECURSIVE SumOver(_, _)
SumOver(f, S) ==
  IF S = {} THEN 0
  ELSE LET x == CHOOSE y \in S : TRUE IN f[x] + SumOver(f, S \ {x})

\* a numpy array: the elements held contiguously in index order
np_array(f) == SubSeq(f, 1, Len(f))

Range(r) == {r[k] : k \in 1..Len(r)}

\* the distinct values of the array, each with the number of elements below
\* it and the number of elements up to it
Ranks(r) ==
  {<<v, Cardinality({k \in 1..Len(r) : r[k] < v}),
        Cardinality({k \in 1..Len(r) : r[k] <= v})>> : v \in Range(r)}

\* the array in descending order
np_sort_descending(r) ==
  LET ranks == Ranks(r)
      n == Len(r)
  IN np_array([i \in 1..n |->
                 (CHOOSE t \in ranks : t[2] < n + 1 - i /\ n + 1 - i <= t[3])[1]])

\* np.sort(returns): ascending, every value as often as it occurs
np_sort(r) ==
  LET ranks == Ranks(r)
  IN np_array([i \in 1..Len(r) |-> (CHOOSE t \in ranks : t[2] < i /\ i <= t[3])[1]])

\* sum of x^j over the array
PowerSum(r, j) ==
  LET ranks == Ranks(r)
  IN SumOver([v \in Range(r) |->
                (v ^ j) * (LET t == CHOOSE u \in ranks : u[1] = v IN t[3] - t[2])],
             Range(r))

\* ------------------------------------------- float64 quotients of sums
\* a * b mod m for 0 <= a, b < m, by doubling
RECURSIVE MulMod(_, _, _)
MulMod(a, b, m) ==
  IF b = 0 THEN 0
  ELSE (2 * MulMod(a, b \div 2, m) + (IF b % 2 = 1 THEN a ELSE 0)) % m

\* 2^c mod m
RECURSIVE Pow2Mod(_, _)
Pow2Mod(c, m) == IF c = 0 THEN 1 % m ELSE (2 * Pow2Mod(c - 1, m)) % m

\* (k * 2^(56 + s) + e * 2^s) mod m
ScaledRem(k, e, s, m) == (MulMod(k % m, Pow2Mod(56 + s, m), m) + e * (2 ^ s)) % m

\* the quotient x / d is at least 2^(52 + j) units
QuotientAtLeast(a, e, d, j) ==
  IF j >= 0 THEN 16 * a > d * (2 ^ j) \/ (16 * a = d * (2 ^ j) /\ e >= 0)
  ELSE 16 * a * (2 ^ (-j)) > d \/ (16 * a * (2 ^ (-j)) = d /\ e >= 0)

RECURSIVE QuotientBinadeUp(_, _, _, _)
QuotientBinadeUp(a, e, d, j) ==
  IF QuotientAtLeast(a, e, d, j + 1) THEN QuotientBinadeUp(a, e, d, j + 1) ELSE j

RECURSIVE QuotientBinadeDown(_, _, _, _)
QuotientBinadeDown(a, e, d, j) ==
  IF QuotientAtLeast(a, e, d, j) THEN j ELSE QuotientBinadeDown(a, e, d, j - 1)

\* the error part without its factors of two that the scale can give up
RECURSIVE Canonical(_, _, _)
Canonical(k, e, s) ==
  IF e = 0 THEN [k |-> k, e |-> 0, s |-> 0]
  ELSE IF s > 0 /\ e % 2 = 0 THEN Canonical(k, e \div 2, s - 1)
  ELSE [k |-> k, e |-> e, s |-> s]

\* x / n in float64, n >= 1.  The quotient of a sum that is a multiple of 0.1
\* with an error is [k, e, s, n]: the number (k * 2^(56+s) + e) / (10 * n * 2^(56+s));
\* the quotient of a sum below 1/16 in magnitude, which is a few units u of
\* 2^-56 exactly, is kept as the division u / n it rounds
FloatDiv(x, n) ==
  IF x.k = 0 THEN [units |-> x.e \div 10, over |-> n]
  ELSE LET a == IF x.k > 0 THEN x.k ELSE -x.k
           ea == IF x.k > 0 THEN x.e ELSE -x.e
           d == 10 * n
           j == IF QuotientAtLeast(a, ea, d, 0)
                  THEN QuotientBinadeUp(a, ea, d, 0)
                  ELSE QuotientBinadeDown(a, ea, d, -1)
           s == IF j < 0 THEN -j ELSE 0
           m == d * (2 ^ (IF j > 0 THEN j ELSE 0))
           rem == ScaledRem(x.k, x.e, s, m)
           odd == ScaledRem(x.k, x.e, s, 2 * m) >= m
           up == 2 * rem > m \/ (2 * rem = m /\ odd)
           c == Canonical(x.k, x.e * (2 ^ s) - rem + (IF up THEN m ELSE 0), s)
       IN [k |-> c.k, e |-> c.e, s |-> c.s, n |-> n]

\* np.add.reduce(a) of a 1-D float64 array
np_add_reduce(r) == PairwiseSum(r, 0, Len(r))

\* np.mean(a) of a 1-D array: np.add.reduce(a) / n
np_mean(r) == FloatDiv(np_add_reduce(r), Len(r))

\* np.median(a): np.mean of the middle element, or of the two middle ones
np_median(r) ==
  LET s == np_sort(r)
      n == Len(r)
  IN IF n = 0 THEN Rat(0, 0)
     ELSE IF n % 2 = 1 THEN np_mean(<<s[(n + 1) \div 2]>>)
     ELSE np_mean(<<s[n \div 2], s[n \div 2 + 1]>>)

\* np.std(a) = sqrt(mean((a - mean)^2)), a function of n, sum x and sum x^2
np_std(r) ==
  [root_of |-> "variance", n |-> Len(r), s1 |-> PowerSum(r, 1), s2 |-> PowerSum(r, 2)]

\* the outcomes of the test np.std(returns) == 0.  The deviations are taken
\* from the computed mean: with two different values some deviation is not 0.
\* With n copies of one value x the float sum is n * x exactly for n <= 2 and
\* for x a multiple of 0.5; three copies of 0.1, 0.2 or 0.4 sum to a neighbour
\* of 3 * x (0.1 + 0.1 + 0.1 = 0.30000000000000004), the mean is one ulp off
\* x and the std a tiny positive number; up to four copies of the other
\* multiples of 0.1 up to 0.6 round back to x.  Longer runs go either way.
StdIsZero(r) ==
  IF Cardinality(Range(r)) # 1 THEN {FALSE}
  ELSE IF Len(r) <= 2 \/ r[1] % 5 = 0 THEN {TRUE}
  ELSE IF Len(r) <= 4 /\ r[1] \in -6..6
         THEN {~(Len(r) = 3 /\ r[1] \in {-4, -2, -1, 1, 2, 4})}
  ELSE {TRUE, FALSE}

\* the rank rounded up, ceil(n * p)
RankIndexCeiling(n, pnum, pden) == CeilDiv(n * pnum, pden)

\* int(n * p) for p = pnum/pden
RankIndex(n, pnum, pden) == (n * pnum) \div pden

\* the levels p at which the sorted returns are read: 0.001, 0.01, 0.05 (VaR
\* and percentiles), 0.25, 0.75, 0.95, 0.99 (percentiles)
MetricLevels ==
  {<<1, 1000>>, <<1, 100>>, <<5, 100>>, <<25, 100>>, <<75, 100>>, <<95, 100>>,
   <<99, 100>>}

\* the order statistic of 1-based rank ceil(n * p)
OrderStatisticClassic(s, pnum, pden) == s[CeilDiv(Len(s) * pnum, pden)]

\* returns_sorted[int(n * p)] (0-based index)
OrderStatistic(s, pnum, pden) == s[RankIndex(Len(s), pnum, pden) + 1]

\* the mean of the slice one element longer, returns_sorted[:int(n * p) + 1]
TailMeanInclusive(s, pnum, pden) ==
  np_mean(SubSeq(s, 1, RankIndex(Len(s), pnum, pden) + 1))

\* np.mean(returns_sorted[:int(n * p)]) in float64; the mean of an empty slice
\* is nan
TailMean(s, pnum, pden) ==
  LET k == RankIndex(Len(s), pnum, pden)
  IN IF k = 0 THEN Rat(0, 0) ELSE np_mean(SubSeq(s, 1, k))

\* np.sum(returns < t) / n  and  np.sum(returns > t) / n
\* the fraction of returns at or below a threshold
FractionAtOrBelow(r, t) == Rat(Cardinality({k \in 1..Len(r) : r[k] <= t}), Len(r))

FractionBelow(r, t) == Rat(Cardinality({k \in 1..Len(r) : r[k] < t}), Len(r))
FractionAbove(r, t) == Rat(Cardinality({k \in 1..Len(r) : r[k] > t}), Len(r))

\* MonteCarloEngine5M._calculate_skewness; zero is the outcome of std == 0
calculate_skewness(r, zero) ==
  IF zero THEN Rat(0, 1)
  ELSE [moment |-> 3, n |-> Len(r), s1 |-> PowerSum(r, 1), s2 |-> PowerSum(r, 2),
        s3 |-> PowerSum(r, 3)]

\* MonteCarloEngine5M._calculate_kurtosis
calculate_kurtosis(r, zero) ==
  IF zero THEN Rat(0, 1)
  ELSE [moment |-> 4, n |-> Len(r), s1 |-> PowerSum(r, 1), s2 |-> PowerSum(r, 2),
        s4 |-> PowerSum(r, 4), minus |-> 3]

\* np.mean(returns) / np.std(returns) if np.std(returns) > 0 else 0
sharpe_ratio(r, zero) ==
  IF ~zero THEN [mean |-> np_mean(r), over |-> np_std(r)]
  ELSE Rat(0, 1)

\* MonteCarloEngine5M._calculate_metrics, for a non-empty array
calculate_metrics(r, zero) ==
  LET returns_sorted == np_sort(r)
  IN [mean_return |-> np_mean(r),
      median_return |-> np_median(r),
      std_return |-> IF zero THEN Rat(0, 1) ELSE np_std(r),
      percentile_1 |-> OrderStatistic(returns_sorted, 1, 100),
      percentile_5 |-> OrderStatistic(returns_sorted, 5, 100),
      percentile_25 |-> OrderStatistic(returns_sorted, 25, 100),
      percentile_75 |-> OrderStatistic(returns_sorted, 75, 100),
      percentile_95 |-> OrderStatistic(returns_sorted, 95, 100),
      percentile_99 |-> OrderStatistic(returns_sorted, 99, 100),
      VaR_95 |-> OrderStatistic(returns_sorted, 5, 100),
      VaR_99 |-> OrderStatistic(returns_sorted, 1, 100),
      VaR_999 |-> OrderStatistic(returns_sorted, 1, 1000),
      CVaR_95 |-> TailMean(returns_sorted, 5, 100),
      CVaR_99 |-> TailMean(returns_sorted, 1, 100),
      CVaR_999 |-> TailMean(returns_sorted, 1, 1000),
      prob_loss |-> FractionBelow(r, 0),
      prob_loss_10 |-> FractionBelow(r, -1),
      prob_loss_20 |-> FractionBelow(r, -2),
      prob_loss_50 |-> FractionBelow(r, -5),
      prob_profit |-> FractionAbove(r, 0),
      prob_profit_10 |-> FractionAbove(r, 1),
      prob_profit_20 |-> FractionAbove(r, 2),
      prob_profit_50 |-> FractionAbove(r, 5),
      skewness |-> calculate_skewness(r, zero),
      kurtosis |-> calculate_kurtosis(r, zero),
      sharpe_ratio |-> sharpe_ratio(r, zero)]

\* ----------------------------------------------- the arrays metrics are fed
SmallValues == {-5, -1, 0, 2}

SmallArrays == UNION {[1..n -> SmallValues] : n \in 0..MaxLen}

\* long arrays, generated: values -6..6, every threshold among them
Generated(n, a) ==
  np_array([k \in 1..n |-> ((((k % 13) * (k % 7)) + a * (k % 11)) % 13) - 6])

\* arrays with thin tails: values -20..20
Spread(n) == np_array([k \in 1..n |-> ((7 * k * k + 3 * k) % 41) - 20])

\* an array longer than the sample cap of the export
LongestArray == Generated(SampleCap + 1, 1)

LongArrays ==
  {Generated(20, 1), Generated(21, 2), Generated(100, 2), Generated(199, 1),
   Generated(1000, 1), Spread(200), LongestArray}

\* the returns and final values of a finished run: final = initial * (1 + return),
\* with an initial portfolio value of 1 (10 in units of 0.1)
FinalValues(r) == np_array([k \in 1..Len(r) |-> 10 + r[k]])

\* ======================================================= export_results
\* the k-th smallest element of the array whose ranks are given, k counted
\* from 0
KthSmallest(ranks, k) ==
  (CHOOSE t \in ranks : t[2] <= k /\ k < t[3])[1]

\* np.percentile(a, pct), default method, of an array of n elements whose ranks
\* are given: linear interpolation in float64 between the two order statistics
\* around position (n - 1) * pct / 100.  The value is given by the fraction
\* num/den of the exact interpolation (in units of 0.1) and by whether the
\* float64 is the one nearest to it: it is when the interpolation runs between
\* equal elements; otherwise the computed position and the products round, and
\* the float64 lies within a few ulp of the fraction.
np_percentile(ranks, n, pct) ==
  LET pos == (n - 1) * pct
      lo == pos \div 100
      hi == Min(lo + 1, n - 1)
      below == KthSmallest(ranks, lo)
      above == KthSmallest(ranks, hi)
      before == KthSmallest(ranks, IF lo >= 1 THEN lo - 1 ELSE 0)
  IN [num |-> 100 * below + (pos - 100 * lo) * (above - below),
      den |-> 100,
      exact |-> below = above /\ (pos % 100 # 0 \/ before = below)]

\* x / y rounded to the nearest integer, ties to even (y > 0)
RoundDiv(x, y) ==
  LET q == x \div y
      rem == x % y
  IN IF 2 * rem > y \/ (2 * rem = y /\ q % 2 = 1) THEN q + 1 ELSE q

\* f'{value*100:.2f}%': the return in percent to two decimals, in units of 0.01%
FormatPercent(v) == RoundDiv(1000 * v.num, v.den)

\* the characters of the decimal digits
DigitChars == <<"0", "1", "2", "3", "4", "5", "6", "7", "8", "9">>

\* the decimal text of a natural number, most significant digit first
RECURSIVE Digits(_)
Digits(n) ==
  IF n < 10 THEN <<DigitChars[n + 1]>>
  ELSE Append(Digits(n \div 10), DigitChars[(n % 10) + 1])

\* f'{pct}%'
FormatLabel(pct) == Append(Digits(pct), "%")

\* for pct in [1, 5, 10, 25, 50, 75, 90, 95, 99]
ExportedPercentiles == <<1, 5, 10, 25, 50, 75, 90, 95, 99>>

\* the rows of the percentiles file
PercentileRows(r) ==
  LET ranks == Ranks(r)
  IN np_array([j \in 1..Len(ExportedPercentiles) |->
        LET value == np_percentile(ranks, Len(r), ExportedPercentiles[j])
        IN [Percentile |-> FormatLabel(ExportedPercentiles[j]),
            Return |-> FormatPercent(value),
            Value |-> value]])

\* the rows of the longest array: they depend on nothing but the array, and
\* are computed once for all the exports of it
LongestArrayPercentiles == PercentileRows(LongestArray)

PercentileTable(r) ==
  IF r = LongestArray THEN LongestArrayPercentiles ELSE PercentileRows(r)

\* the rows of the percentiles file of returns that are not evaluated: the
\* label, and the percentile and its text left as what they are taken of
PercentileTableOf(r) ==
  [j \in 1..Len(ExportedPercentiles) |->
     [Percentile |-> FormatLabel(ExportedPercentiles[j]),
      Return |-> [format |-> "percent, 2 decimals", percentile |-> ExportedPercentiles[j],
                  of |-> r],
      Value |-> [percentile |-> ExportedPercentiles[j], of |-> r]]]

\* the metrics that are the int 0, not a float, when the standard deviation is 0
IntWhenDegenerate == {"skewness", "kurtosis", "sharpe_ratio"}

\* the rows of the metrics file: f"{value:.6f}" if isinstance(value, float)
\* else value, for every entry of the metrics dict
MetricsTable(m) ==
  [f \in DOMAIN m |->
     [Value |-> m[f],
      format |-> IF f \in IntWhenDegenerate /\ m[f] = Rat(0, 1) THEN "str"
                 ELSE IF f \in IntWhenDegenerate /\ "int_0_if" \in DOMAIN m[f]
                   THEN ".6f if isinstance(value, float) else str"
                 ELSE ".6f"]]

RECURSIVE GCD(_, _)
GCD(a, b) == IF b = 0 THEN a ELSE GCD(b, a % b)

\* the shuffle of a population of n that starts in the generator state g stays
\* inside the tabulated words: the state is one that was carried out, the
\* shuffle takes fewer than two words a step, and the low 10 bits of a word
\* decide a step of a population of at most 1024
Tabulated(n, g) ==
  /\ n <= 1024
  /\ "word" \in DOMAIN g
  /\ g.word + 2 * n + 64 <= Len(rk_random)

\* np.random.permutation(n) from the generator in state g, as 1-based indices,
\* with the state afterwards.  Past the tabulated words of the stream the
\* shuffle is not carried out: the order and the state stay the expressions
\* they are.
np_permutation(g, n) ==
  IF Tabulated(n, g)
    THEN LET s == Shuffle([k \in 1..n |-> k], n - 1, g.word)
         IN {[x |-> s.x, state |-> [word |-> s.word, gauss |-> g.gauss]]}
    ELSE {[x |-> [shuffle_of |-> n, from |-> g],
           state |-> [after_shuffle_of |-> n, from |-> g]]}

\* draws with replacement: an index may come twice
random_choice_replace(g, n, size) ==
  IF Tabulated(n, g)
    THEN {[idx |-> np_array([j \in 1..size |-> (rk_random[g.word + j] % n) + 1]),
           state |-> [word |-> g.word + size, gauss |-> g.gauss]]}
    ELSE {[idx |-> [first |-> size, of |-> p.x], state |-> p.state] :
            p \in np_permutation(g, n)}

\* np.random.choice(n, size, replace=False): permutation(n)[:size]
random_choice(g, n, size) ==
  {[idx |-> IF Tabulated(n, g) THEN SubSeq(p.x, 1, size)
                                    ELSE [first |-> size, of |-> p.x],
    state |-> p.state] : p \in np_permutation(g, n)}

\* the sample file: the returns and final values at the drawn indices, row by
\* row when the indices are carried out
SampleTable(res, idx, carried_out) ==
  IF carried_out
    THEN np_array([j \in 1..Len(idx) |->
                     [Return |-> res.returns[idx[j]],
                      Final_Value |-> res.final_values[idx[j]]]])
    ELSE [Return |-> [take |-> "returns", at |-> idx],
          Final_Value |-> [take |-> "final_values", at |-> idx],
          rows |-> idx.first]

\* ------------------------------------------- the end of run_5M_simulation
\* the dict run_5M_simulation returns; the two timings are what the clock gave
RunResults(final_values, r, m, config) ==
  [final_values |-> final_values,
   returns |-> r,
   metrics |-> m,
   config |-> config,
   elapsed_time |-> "total_elapsed",
   speed |-> "total_speed"]

\* the keys of the dict _calculate_metrics returns
MetricKeys == DOMAIN calculate_metrics(<<0>>, TRUE)

\* the return is a float64 known exactly: a whole number of tenths
InTenths(x) == "num" \in DOMAIN x /\ x.den > 0 /\ (10 * x.num) % x.den = 0

\* every return of the run is a whole number of tenths (0.0 when each path
\* ends at the initial value, -1.0 when no batch wrote the zeros of np.zeros)
AllTenths(r) == \A k \in 1..Len(r) : InTenths(r[k])

\* the returns in tenths
AsTenths(r) == [k \in 1..Len(r) |-> (10 * r[k].num) \div r[k].den]

\* the return is a float64 that small sums of its copies hold exactly: a
\* fraction with a power of two up to 2^10 below it
Dyadic(x) == "num" \in DOMAIN x /\ x.den > 0 /\ (1024 * x.num) % x.den = 0

\* the outcome of the test np.std(returns) == 0 on the returns of a run that
\* are kept as expressions.  One return, or two equal ones, or up to
\* MaxSims + 1 copies of a dyadic one have the mean equal to every element,
\* so every deviation is 0.0; returns that differ have a deviation that is
\* not; of three or more copies of another value the sum may round, and the
\* outcome is that of the test, not evaluated.
StdIsZeroOfRun(r) ==
  IF \E k \in 1..Len(r) : r[k] # r[1] THEN "no"
  ELSE IF Len(r) <= 2 \/ Dyadic(r[1]) THEN "yes"
  ELSE "np.std(returns) == 0"

\* a metric of returns kept as expressions, for the outcome of std == 0: the
\* statistic it is, not evaluated; with three of them (and the standard
\* deviation) known when the test is decided
MetricOfRun(f, zero) ==
  IF f \in {"std_return", "skewness", "kurtosis", "sharpe_ratio"} /\ zero = "yes"
    THEN Rat(0, 1)
  ELSE IF f \in {"skewness", "kurtosis", "sharpe_ratio"} /\ zero # "no"
    THEN [metric |-> f, of |-> "returns", int_0_if |-> zero]
  ELSE [metric |-> f, of |-> "returns"]

\* _calculate_metrics on the returns of a run.  Returns that are all whole
\* tenths are evaluated as that array; of any other array (its elements are
\* expressions in the normals drawn) every metric is left as the statistic it
\* is, not evaluated, except the values the test std == 0 decides.
calculate_metrics_of_run(r) ==
  IF AllTenths(r)
    THEN {calculate_metrics(AsTenths(r), zero) : zero \in StdIsZero(AsTenths(r))}
    ELSE {[f \in MetricKeys |-> MetricOfRun(f, StdIsZeroOfRun(r))]}

\* the metrics are values, not statistics left unevaluated
Evaluated(m) == "metric" \notin DOMAIN m.mean_return

\* lines 166-179: metrics = self._calculate_metrics(returns), the results dict,
\* _print_summary; the lookup returns_sorted[0] of an empty array raises IndexError
run_5M_simulation_metrics ==
  /\ pc = "metrics" /\ mpc = "off"
  /\ metrics_calls' = metrics_calls + 1
  /\ IF n_simulations = 0
       THEN /\ Raise("IndexError")
            /\ UNCHANGED <<results, results_log, metrics, mpc>>
       ELSE /\ metrics' \in calculate_metrics_of_run(returns)
            /\ results' = RunResults(all_final_values, returns, metrics',
                                     portfolio_config)
            /\ results_log' = Append(results_log, results')
            /\ pc' = "done"
            /\ mpc' = "export"
            /\ UNCHANGED <<error, tensors>>
  /\ UNCHANGED <<engine, args, rng, initial_portfolio_value, all_final_values,
                 batch_vars, run_count, run_start_pos, run_start_state, batch_log,
                 write_count, call_count, export_count, returns, exported,
                 sample_indices, generator_metrics, report_files>>

\* the percentile table of a results dict: evaluated when the returns are
\* whole tenths
PercentileTableOfRun(res) ==
  IF AllTenths(res.returns)
    THEN PercentileTable(AsTenths(res.returns))
    ELSE PercentileTableOf("returns")

\* MonteCarloEngine5M.export_results(results) called with a dict a run
\* returned, the last one or an earlier one, any number of times: the metrics
\* file, the sample, whose indices are drawn from the process-wide generator in
\* the state it stands in, and the percentile table, each written over the
\* file of the call before
export_results_after_run ==
  /\ HasEngine
  /\ CallsLeft
  /\ call_count' = call_count + 1
  /\ export_count' = export_count + 1
  /\ \E k \in 1..Len(results_log) :
       LET res == results_log[k]
           n == Len(res.returns)
           sample_size == Min(SampleCap, n)
       IN \E drawn \in random_choice(rng_state, n, sample_size) :
            /\ sample_indices' = drawn.idx
            /\ exported' = [metrics_csv |-> MetricsTable(res.metrics),
                            returns_sample |-> SampleTable(res, drawn.idx,
                                                           Tabulated(n, rng_state)),
                            percentiles |-> PercentileTableOfRun(res)]
            /\ rng_state' = drawn.state
  /\ mpc' = "exported"
  /\ UNCHANGED <<engine, args, pc, error, rng_pos, initial_portfolio_value,
                 all_final_values, batch_vars, tensors, results, run_count,
                 run_start_pos, run_start_state, batch_log, write_count,
                 metrics_calls, results_log,
                 returns, metrics, generator_metrics, report_files>>

\* ------------------------------------------------- integration_helper.py
\* AnalysisIntegration.run_monte_carlo_simulation(n_simulations, batch_size=...),
\* called with the engine's two arguments and its own defaults for the rest, at
\* any time no call is executing: an engine is constructed as a local of the
\* method, which seeds the process-wide generator (a batch size of 0 raises
\* ZeroDivisionError in __init__ before the seed, which except Exception turns
\* into {}), and the dict of the arguments is returned with status 'completed'
run_monte_carlo_simulation ==
  /\ BetweenCalls
  /\ CallsLeft
  /\ call_count' = call_count + 1
  /\ IF batch_size = 0
       THEN /\ integration_results' = Unset
            /\ UNCHANGED rng
       ELSE /\ rng_pos' = 0
            /\ rng_state' = rk_seed
            /\ integration_results' =
                 [n_simulations |-> n_simulations,
                  annual_return |-> "0.12",
                  annual_volatility |-> "0.18",
                  time_horizon |-> 5,
                  initial_value |-> 726500,
                  batch_size |-> batch_size,
                  status |-> "completed"]
  /\ UNCHANGED <<engine, args, pc, error, initial_portfolio_value,
                 all_final_values, batch_vars, tensors, results, run_count,
                 run_start_pos, run_start_state, batch_log, write_count,
                 metrics_calls, results_log, export_count>>

Next ==
  \/ MonteCarloEngine5M_init /\ UNCHANGED <<report, helper>>
  \/ run_5M_simulation_start /\ UNCHANGED helper
  \/ run_5M_simulation_loop /\ UNCHANGED <<report, helper>>
  \/ simulate_portfolio_batch_cholesky /\ UNCHANGED <<report, helper>>
  \/ simulate_portfolio_batch_draw /\ UNCHANGED <<report, helper>>
  \/ simulate_portfolio_batch_correlate /\ UNCHANGED <<report, helper>>
  \/ simulate_portfolio_batch_reduce /\ UNCHANGED <<report, helper>>
  \/ simulate_portfolio_batch /\ UNCHANGED <<report, helper>>
  \/ run_5M_simulation_store /\ UNCHANGED <<report, helper>>
  \/ run_5M_simulation_returns
       /\ UNCHANGED <<metrics, exported, sample_indices, generator_metrics,
                      report_files, mpc, helper>>
  \/ run_5M_simulation_metrics /\ UNCHANGED helper
  \/ export_results_after_run /\ UNCHANGED helper
  \/ run_monte_carlo_simulation /\ UNCHANGED report

Spec == Init /\ [][Next]_vars

\* ------------------------------------- _calculate_metrics on a given array
\* The state at line 166 of a run whose returns are a given array of multiples
\* of 0.1, on an engine just constructed.
MetricsInit ==
  /\ returns \in SmallArrays \cup LongArrays
  /\ n_simulations = Len(returns)
  /\ batch_size = 1
  /\ portfolio_config = CHOOSE c \in Configs : TRUE
  /\ time_horizon = CHOOSE h \in Horizons : TRUE
  /\ n_batches = Len(returns)
  /\ pc = "metrics"
  /\ error = None
  /\ rng_pos = 0
  /\ rng_state = rk_seed
  /\ initial_portfolio_value = 10
  /\ all_final_values = FinalValues(returns)
  /\ batch_idx = 0 /\ batch_start = 0 /\ batch_end = 0 /\ batch_n_sims = 0
  /\ L = << >> /\ Z_indep = << >> /\ Z_corr = << >>
  /\ portfolio_final_values = << >>
  /\ results = None
  /\ run_count = 0 /\ run_start_pos = 0 /\ run_start_state = rk_seed
  /\ batch_log = << >>
  /\ write_count = << >> /\ metrics_calls = 0
  /\ results_log = << >> /\ call_count = 0 /\ export_count = 0
  /\ metrics = None /\ exported = None
  /\ sample_indices = << >>
  /\ generator_metrics = Unset /\ report_files = None
  /\ mpc = "metrics"
  /\ integration_results = Unset

\* lines 166-179 for the given array: metrics = self._calculate_metrics(returns),
\* the results dict; the lookup returns_sorted[0] of an empty array raises
\* IndexError
calculate_metrics_call ==
  /\ pc = "metrics" /\ mpc = "metrics"
  /\ metrics_calls' = metrics_calls + 1
  /\ IF Len(returns) = 0
       THEN /\ pc' = "failed"
            /\ mpc' = "failed"
            /\ error' = "IndexError"
            /\ UNCHANGED <<metrics, results, results_log>>
       ELSE /\ \E zero \in StdIsZero(returns) :
                 /\ metrics' = calculate_metrics(returns, zero)
                 /\ results' = RunResults(all_final_values, returns, metrics',
                                          portfolio_config)
                 /\ results_log' = <<results'>>
            /\ pc' = "done"
            /\ mpc' = "export"
            /\ UNCHANGED error
  /\ UNCHANGED <<engine, args, rng, initial_portfolio_value,
                 all_final_values, batch_vars, tensors, run_count, run_start_pos,
                 run_start_state, batch_log, write_count, call_count, export_count,
                 returns, exported, sample_indices, generator_metrics, report_files>>

\* export_results has written its files
HasExport == mpc \notin {"off", "metrics", "failed", "export"}

\* MonteCarloEngine5M.export_results(results), any number of times: every call
\* draws its sample from the generator in the state it stands in and writes
\* the three files again
export_results ==
  /\ HasEngine
  /\ CallsLeft
  /\ call_count' = call_count + 1
  /\ export_count' = export_count + 1
  /\ \E k \in 1..Len(results_log) :
       LET res == results_log[k]
           n == Len(res.returns)
           sample_size == Min(SampleCap, n)
       IN \E drawn \in random_choice(rng_state, n, sample_size) :
            /\ sample_indices' = drawn.idx
            /\ exported' = [metrics_csv |-> MetricsTable(res.metrics),
                            returns_sample |-> SampleTable(res, drawn.idx,
                                                           Tabulated(n, rng_state)),
                            percentiles |-> PercentileTable(res.returns)]
            /\ rng_state' = drawn.state
  /\ mpc' = IF mpc = "export" THEN "exported" ELSE mpc
  /\ UNCHANGED <<engine, args, pc, error, rng_pos, initial_portfolio_value,
                 all_final_values, batch_vars, tensors, results, run_count,
                 run_start_pos, run_start_state, batch_log, write_count,
                 metrics_calls, results_log,
                 returns, metrics, generator_metrics, report_files>>

\* ============================================ PercentileReportGenerator
\* str.rstrip('%'): the text without its trailing percent signs
RECURSIVE rstrip(_)
rstrip(label) ==
  IF label # << >> /\ label[Len(label)] = "%"
    THEN rstrip(SubSeq(label, 1, Len(label) - 1))
    ELSE label

\* astype(int) of a text of decimal digits
RECURSIVE astype_int(_)
astype_int(digits) ==
  IF digits = << >> THEN 0
  ELSE 10 * astype_int(SubSeq(digits, 1, Len(digits) - 1))
         + (CHOOSE d \in 0..9 : DigitChars[d + 1] = digits[Len(digits)])

\* A float64 the report computes is kept as the expression that computes it:
\* the operation and its operands, in the order of the code.
Mul(x, y) == [op |-> "mul", x |-> x, y |-> y]
Add(x, y) == [op |-> "add", x |-> x, y |-> y]
Sub(x, y) == [op |-> "sub", x |-> x, y |-> y]

\* the float64 pd.read_csv parses from the text df.to_csv wrote for a value
read_csv_float(v) == [op |-> "read_csv", x |-> v]

\* PercentileReportGenerator.__init__: the columns read from the percentiles file
PercentileReportGenerator_init(table) ==
  [percentiles |-> [j \in 1..Len(table) |-> astype_int(rstrip(table[j].Percentile))],
   returns |-> [j \in 1..Len(table) |-> read_csv_float(table[j].Value)]]

\* np.where(self.percentiles == pct)[0][0]
RowOf(gen, pct) ==
  CHOOSE j \in 1..Len(gen.percentiles) :
    /\ gen.percentiles[j] = pct
    /\ \A i \in 1..(j - 1) : gen.percentiles[i] # pct

\* np.interp(x, xp, fp)
np_interp(x, xp, fp) == [op |-> "interp", x |-> x, xp |-> xp, fp |-> fp]

\* PercentileReportGenerator.calculate_metrics
report_calculate_metrics(gen, initial_value) ==
  LET at(pct) == gen.returns[RowOf(gen, pct)]
      n == Len(gen.returns)
      returns_pct == [j \in 1..n |-> Mul(gen.returns[j], 100)]
      prob_loss_pct == np_interp(0, returns_pct, gen.percentiles)
      final_values == [j \in 1..n |-> Mul(initial_value, Add(1, gen.returns[j]))]
  IN [median_return |-> Mul(at(50), 100),
      median_final_value |-> Mul(initial_value, Add(1, at(50))),
      prob_loss |-> prob_loss_pct,
      prob_profit |-> Sub(100, prob_loss_pct),
      var_95 |-> Mul(at(5), 100),
      var_99 |-> Mul(at(1), 100),
      best_case |-> Mul(gen.returns[n], 100),
      worst_case |-> Mul(gen.returns[1], 100),
      range |-> Mul(Sub(gen.returns[n], gen.returns[1]), 100),
      iqr |-> Mul(Sub(at(75), at(25)), 100),
      final_values |-> final_values,
      gains_losses |-> [j \in 1..n |-> Sub(final_values[j], initial_value)]]

\* generate_markdown_report, generate_trading_recommendations,
\* generate_summary_csv and generate_visualization: each formats self.metrics
\* into its file and returns the file's path; reading self.metrics raises
\* AttributeError when calculate_metrics has not run
generate_report_file(gen_metrics, output_file) ==
  IF gen_metrics = Unset THEN "AttributeError" ELSE output_file

\* the value of a dict display whose entries are evaluated in order: the first
\* exception leaves the display, and the except clause returns {}
DictOrEmpty(entries) ==
  IF \E k \in DOMAIN entries : entries[k] = "AttributeError" THEN Unset ELSE entries

\* a generator object has been constructed from the exported percentiles file
HasGenerator == mpc = "generator"

\* AnalysisIntegration.generate_percentile_report(percentiles_csv, initial_portfolio):
\* a generator of its own is constructed, and its three reports are asked for
\* without calculate_metrics.  Before an export there is no file to read: the
\* FileNotFoundError of pd.read_csv is caught like any other exception, and {}
\* is returned.
generate_percentile_report ==
  /\ BetweenCalls
  /\ CallsLeft
  /\ call_count' = call_count + 1
  /\ IF ~HasExport
       THEN report_files' = Unset
       ELSE LET generator == PercentileReportGenerator_init(exported.percentiles)
                generator_dot_metrics == Unset
            IN report_files' =
                 DictOrEmpty(
                   [markdown |-> generate_report_file(generator_dot_metrics,
                                                      "PERCENTILE_REPORT.md"),
                    recommendations |-> generate_report_file(generator_dot_metrics,
                                                             "trading_recommendations.txt"),
                    summary |-> generate_report_file(generator_dot_metrics,
                                                     "summary_statistics.csv")])
  /\ mpc' = IF mpc = "exported" THEN "helper_returned" ELSE mpc
  /\ UNCHANGED <<simulated, returns, metrics, exported, sample_indices,
                 generator_metrics>>

\* generator = PercentileReportGenerator(percentiles_csv, initial_portfolio_value),
\* the first time or again: the object made has no metrics attribute, whatever
\* the one before it had.  Before an export pd.read_csv raises FileNotFoundError
\* and no object is made.
PercentileReportGenerator_new ==
  /\ BetweenCalls
  /\ CallsLeft
  /\ call_count' = call_count + 1
  /\ IF ~HasExport
       THEN /\ error' = "FileNotFoundError"
            /\ UNCHANGED <<generator_metrics, mpc>>
       ELSE /\ generator_metrics' = Unset
            /\ mpc' = "generator"
            /\ UNCHANGED error
  /\ UNCHANGED <<engine, args, pc, rng, initial_portfolio_value, all_final_values,
                 batch_vars, tensors, results, run_history, export_count,
                 returns, metrics, exported, sample_indices, report_files>>

\* PercentileReportGenerator.calculate_metrics called on the generator
PercentileReportGenerator_calculate_metrics ==
  /\ HasGenerator
  /\ CallsLeft
  /\ call_count' = call_count + 1
  /\ generator_metrics' =
       report_calculate_metrics(PercentileReportGenerator_init(exported.percentiles),
                                initial_portfolio_value)
  /\ UNCHANGED <<simulated, returns, metrics, exported, sample_indices, report_files,
                 mpc>>

\* one of the four generate_* methods called on the generator: the path it
\* returns, or the AttributeError that leaves it
generate_one(key, output_file) ==
  /\ HasGenerator
  /\ CallsLeft
  /\ call_count' = call_count + 1
  /\ IF generate_report_file(generator_metrics, output_file) = "AttributeError"
       THEN /\ error' = "AttributeError"
            /\ UNCHANGED report_files
       ELSE /\ report_files' = [k \in {key} |-> output_file]
            /\ UNCHANGED error
  /\ UNCHANGED <<engine, args, pc, rng, initial_portfolio_value, all_final_values,
                 batch_vars, tensors, results, run_history, export_count,
                 returns, metrics, exported, sample_indices, generator_metrics, mpc>>

generate_visualization == generate_one("visualization", "percentile_analysis.png")
generate_markdown_report == generate_one("markdown", "PERCENTILE_REPORT.md")
generate_trading_recommendations == generate_one("trading", "trading_recommendations.txt")
generate_summary_csv == generate_one("summary", "summary_statistics.csv")

\* PercentileReportGenerator.generate_all_reports called on the generator:
\* calculate_metrics, then the four files
generate_all_reports ==
  /\ HasGenerator
  /\ CallsLeft
  /\ call_count' = call_count + 1
  /\ LET generator == PercentileReportGenerator_init(exported.percentiles)
         generator_dot_metrics == report_calculate_metrics(generator, initial_portfolio_value)
     IN /\ generator_metrics' = generator_dot_metrics
        /\ report_files' =
             [visualization |-> generate_report_file(generator_dot_metrics,
                                                     "percentile_analysis.png"),
              markdown |-> generate_report_file(generator_dot_metrics, "PERCENTILE_REPORT.md"),
              trading |-> generate_report_file(generator_dot_metrics,
                                               "trading_recommendations.txt"),
              summary |-> generate_report_file(generator_dot_metrics,
                                               "summary_statistics.csv")]
  /\ UNCHANGED <<simulated, returns, metrics, exported, sample_indices, mpc>>

MetricsNext ==
  \/ calculate_metrics_call /\ UNCHANGED helper
  \/ MonteCarloEngine5M_init /\ UNCHANGED <<report, helper>>
  \/ run_monte_carlo_simulation /\ UNCHANGED report
  \/ export_results /\ UNCHANGED helper
  \/ generate_percentile_report /\ UNCHANGED helper
  \/ PercentileReportGenerator_new /\ UNCHANGED helper
  \/ PercentileReportGenerator_calculate_metrics /\ UNCHANGED helper
  \/ generate_visualization /\ UNCHANGED helper
  \/ generate_markdown_report /\ UNCHANGED helper
  \/ generate_trading_recommendations /\ UNCHANGED helper
  \/ generate_summary_csv /\ UNCHANGED helper
  \/ generate_all_reports /\ UNCHANGED helper

MetricsSpec == MetricsInit /\ [][MetricsNext]_vars

\* ------------------------------------------------------------ vocabulary
InRun == pc \in {"loop", "cholesky", "draw", "correlate", "reduce", "store",
                 "returns", "metrics", "done"}
InBatch == pc \in {"cholesky", "draw", "correlate", "reduce", "store"}

NAssets == Len(portfolio_config.weights)

\* the least m with m * k >= s, for k >= 1
BatchesNeeded(s, k) == CHOOSE m \in 0..s : m * k >= s /\ (m = 0 \/ (m - 1) * k < s)

RangeLengths == [k \in 1..Len(batch_log) |-> batch_log[k][2] - batch_log[k][1]]

\* every per-asset list and the matrix have one entry per weight
SameLengths(cfg) ==
  /\ Len(cfg.initial_prices) = Len(cfg.weights)
  /\ Len(cfg.expected_returns) = Len(cfg.weights)
  /\ Len(cfg.volatilities) = Len(cfg.weights)
  /\ Len(cfg.correlation_matrix) = Len(cfg.weights)

\* determinants of the principal minors of a matrix of order <= 3
Det2(C, i, j) == C[i][i] * C[j][j] - C[i][j] * C[j][i]
Det3(C) ==
    C[1][1] * (C[2][2] * C[3][3] - C[2][3] * C[3][2])
  - C[1][2] * (C[2][1] * C[3][3] - C[2][3] * C[3][1])
  + C[1][3] * (C[2][1] * C[3][2] - C[2][2] * C[3][1])
\* Sylvester's criterion: the leading principal minors are positive
PositiveDefinite(C) ==
  /\ C[1][1] > 0
  /\ Len(C) >= 2 => Det2(C, 1, 2) > 0
  /\ Len(C) = 3 => Det3(C) > 0
PositiveSemiDefinite(C) ==
  /\ \A i \in 1..Len(C) : C[i][i] >= 0
  /\ \A i, j \in 1..Len(C) : i < j => Det2(C, i, j) >= 0
  /\ Len(C) = 3 => Det3(C) >= 0

\* ------------------------------------------------------------------ claims

\* C1: for S >= 1 and K >= 1 the run processes exactly ceil(S/K) batches, batch k
\* covering [k*K, min((k+1)*K, S)); the ranges are disjoint, their lengths sum to
\* S, and every index of the result array is written exactly once by the run.
C1_Partition ==
  (n_simulations >= 1 /\ batch_size >= 1 /\ pc # "new") =>
    /\ \A k \in 1..Len(batch_log) :
         batch_log[k] = <<(k - 1) * batch_size, Min(k * batch_size, n_simulations)>>
    /\ \A j, k \in 1..Len(batch_log) :
         j < k => batch_log[j][2] <= batch_log[k][1]
    /\ \A p \in 1..Len(write_count) : write_count[p] <= 1
    /\ pc \in {"returns", "metrics", "done"} =>
         /\ Len(batch_log) = BatchesNeeded(n_simulations, batch_size)
         /\ SeqSum(RangeLengths) = n_simulations
         /\ Len(write_count) = n_simulations
         /\ \A p \in 1..n_simulations : write_count[p] = 1

C1_Witness ==
  /\ pc = "done"
  /\ Len(batch_log) >= 2
  /\ n_simulations % batch_size # 0
  /\ \A p \in 1..n_simulations : write_count[p] = 1

\* C2: the result array of a freshly constructed engine's run is the same for
\* every batch size: it equals, element for element, the array of the run that
\* simulates all S paths as one batch, because batch k starts drawing at the
\* stream position batch_start * n_steps * n_assets.
SingleBatchValues ==
  LET Zc == MatmulLT(StandardNormal(rk_seed, n_simulations, NSteps(time_horizon),
                                    NAssets).values,
                     Cholesky(portfolio_config.correlation_matrix), NAssets)
  IN [p \in 1..n_simulations |->
        PathValue(portfolio_config, Zc, p - 1, NSteps(time_horizon), NAssets)]

\* the run in progress, or the last one, began with the generator as the
\* constructor leaves it
FreshRun == run_count >= 1 /\ run_start_state = rk_seed

C2_BatchSizeInvariance ==
  /\ (pc = "draw" /\ FreshRun) =>
        rng_pos = batch_start * NSteps(time_horizon) * NAssets
  /\ (pc = "done" /\ FreshRun /\ batch_size >= 1) =>
        all_final_values = SingleBatchValues

C2_Witness ==
  /\ pc = "done" /\ FreshRun
  /\ Len(batch_log) >= 2
  /\ NSteps(time_horizon) >= 1
  /\ \E p, q \in 1..n_simulations : all_final_values[p] # all_final_values[q]

\* C3: with a batch size greater than the total count S >= 1 the scheduler runs
\* exactly one batch, of S paths, and the batch size raises no error: the run of
\* a well-formed configuration (one entry per asset in every list, a positive
\* definite matrix, which is what np.linalg.cholesky factors) completes.
C3_OversizedBatch ==
  (batch_size > n_simulations /\ n_simulations >= 1 /\ pc # "new") =>
    /\ n_batches = 1
    /\ error # "ZeroDivisionError"
    /\ InBatch => (batch_idx = 0 /\ batch_start = 0 /\ batch_end = n_simulations
                   /\ batch_n_sims = n_simulations)
    /\ pc \in {"returns", "metrics", "done"} => batch_log = << <<0, n_simulations>> >>
    /\ pc = "failed" =>
         ~(/\ SameLengths(portfolio_config)
           /\ PositiveDefinite(portfolio_config.correlation_matrix))

C3_Witness ==
  /\ pc = "done"
  /\ batch_size > n_simulations
  /\ batch_log = << <<0, n_simulations>> >>
  /\ Len(all_final_values) = n_simulations

\* C4 (as stated): a batch size <= 0 or greater than the total count is rejected
\* before any batch is allocated or simulated; no result array and no metrics
\* are produced for it.
C4_BatchSizeRejected ==
  (batch_size <= 0 \/ batch_size > n_simulations) =>
    /\ ~InRun
    /\ all_final_values = << >>
    /\ metrics_calls = 0
    /\ results = None

\* C5 (as stated): weights that do not sum to 1 make the run fail before the
\* first batch is simulated; a run that reaches the batch loop has weights that
\* sum to 1.
C5_WeightsSumToOne ==
  (InBatch \/ pc \in {"returns", "metrics", "done"}) =>
    SeqSum(portfolio_config.weights) = WeightScale

\* C6 (as stated): a configuration whose per-asset lists or matrix differ in
\* length from the weights is rejected before any batch is allocated; no longer
\* list is silently truncated to the first len(weights) entries.
C6_LengthsRejected ==
  ~SameLengths(portfolio_config) =>
    /\ ~InBatch
    /\ batch_log = << >>
    /\ results = None

\* C7 (as stated): a horizon whose timestep count is 0 makes the run fail; no
\* batch with zero timesteps is simulated and its terminal values returned.
C7_ZeroStepsRejected ==
  time_horizon[1] * TradingDays < time_horizon[2] =>
    /\ batch_log = << >>
    /\ pc # "done"

\* C8 (as stated): the number of timesteps simulated per path is
\* round(horizon_years * 252), a fractional part >= 0.5 being rounded up.
RoundedSteps(T) == (2 * T[1] * TradingDays + T[2]) \div (2 * T[2])

C8_StepsRounded ==
  pc \in {"correlate", "reduce", "store"} =>
    Len(Z_indep) = batch_n_sims * RoundedSteps(time_horizon) * NAssets

\* C9: with a correlation matrix that is not positive semi-definite the Cholesky
\* step of the first batch fails before any normal of the batch is drawn: the
\* run never gets past it and the stream position stays where the run began.
C9_CholeskyBeforeDraw ==
  (/\ ~PositiveSemiDefinite(portfolio_config.correlation_matrix)
   /\ n_simulations >= 1 /\ batch_size >= 1 /\ pc # "new") =>
    /\ pc \notin {"draw", "correlate", "reduce", "store", "returns", "metrics", "done"}
    /\ rng_pos = run_start_pos /\ rng_state = run_start_state
    /\ Z_indep = << >>
    /\ (pc = "failed" /\ Broadcastable(portfolio_config.weights,
                                       portfolio_config.initial_prices)) =>
          error = "LinAlgError"

C9_Witness ==
  /\ pc = "failed" /\ error = "LinAlgError"
  /\ ~PositiveSemiDefinite(portfolio_config.correlation_matrix)
  /\ batch_n_sims * NSteps(time_horizon) * NAssets > 0
  /\ rng_pos = run_start_pos

\* C10: a failing batch aborts the run: the exception ends it at once, no batch
\* is simulated or stored afterwards, the failed batch is not retried, metrics
\* are never computed from the partly filled array and nothing is returned.
\* What follows a failure is a call of the caller: another run, which begins
\* again at batch 0, or a call that leaves all of the failed run as it is.
C10_AbortOnFailure ==
  [][ /\ (InBatch /\ error' # None) =>
           /\ pc' = "failed"
           /\ results' = None /\ results_log' = << >> /\ metrics_calls' = 0
           /\ batch_log' = batch_log /\ all_final_values' = all_final_values
      /\ pc = "failed" =>
           \/ /\ run_count' = run_count + 1
              /\ batch_log' = << >> /\ metrics_calls' = 0
              /\ results' = None /\ results_log' = << >>
           \/ /\ run_count' = run_count /\ call_count' = call_count + 1
              /\ pc' = "failed"
              /\ batch_log' = batch_log /\ batch_idx' = batch_idx
              /\ all_final_values' = all_final_values
              /\ results' = None /\ results_log' = << >>
              /\ metrics_calls' = metrics_calls ]_vars

C10_Witness ==
  /\ pc = "failed" /\ error \in {"LinAlgError", "ValueError", "IndexError"}
  /\ n_batches >= 2 /\ batch_idx = 0 /\ batch_n_sims >= 1
  /\ Len(all_final_values) = n_simulations
  /\ results = None /\ metrics_calls = 0

\* ------------------------------------------------------ metrics vocabulary
\* _calculate_metrics has returned
HasMetrics == mpc \notin {"off", "metrics", "failed"}

\* _calculate_metrics has returned and the caller has made no call since: the
\* state every dict of metrics is first seen in, with the returns it was
\* computed from (no call made later writes either of them)
MetricsReturned == HasMetrics /\ call_count = 0

\* the metrics that are one order statistic, with their probability level
RankMetrics ==
  {<<"percentile_1", 1, 100>>, <<"percentile_5", 5, 100>>,
   <<"percentile_25", 25, 100>>, <<"percentile_75", 75, 100>>,
   <<"percentile_95", 95, 100>>, <<"percentile_99", 99, 100>>,
   <<"VaR_95", 5, 100>>, <<"VaR_99", 1, 100>>, <<"VaR_999", 1, 1000>>}

\* v is the element that k others precede in ascending order
HasRank(r, v, k) ==
  /\ Cardinality({i \in 1..Len(r) : r[i] < v}) <= k
  /\ k < Cardinality({i \in 1..Len(r) : r[i] <= v})

\* C11: every percentile and every VaR is the element of the ascending returns
\* at 0-based index floor(n * p): percentile_q at p = q/100, VaR_95 at 0.05,
\* VaR_99 at 0.01 and VaR_999 at 0.001.
C11_NearestRank ==
  MetricsReturned =>
    \A q \in RankMetrics :
      HasRank(returns, metrics[q[1]], (Len(returns) * q[2]) \div q[3])

C11_Witness ==
  /\ MetricsReturned /\ Len(returns) = 1000
  /\ metrics.percentile_25 < metrics.percentile_75
  /\ metrics.VaR_95 = metrics.percentile_5 /\ metrics.VaR_99 = metrics.percentile_1

\* the tail means, each with the order statistic of the same level
TailMetrics ==
  {<<"CVaR_95", "VaR_95", 5, 100>>, <<"CVaR_99", "VaR_99", 1, 100>>,
   <<"CVaR_999", "VaR_999", 1, 1000>>}

\* x <= v for a float64 mean x and the float64 of v tenths.  A mean is nan
\* (0/0, which is <= nothing), the quotient of a few units of 2^-56 (its sign
\* is that of the units), or [k, e, s, n]; v/10 as a float64 is Tenth(v).
FloatLeq(x, v) ==
  IF "num" \in DOMAIN x THEN FALSE
  ELSE IF "units" \in DOMAIN x
    THEN IF v = 0 THEN x.units <= 0 ELSE v > 0
  ELSE IF x.k # x.n * v THEN x.k < x.n * v
  ELSE x.e <= x.n * (2 ^ x.s) * Tenth(v).e

\* C12: for every non-empty returns array and each of the three levels the
\* reported CVaR is less than or equal to the reported VaR, also when
\* floor(n * p) = 0.
C12_CVaRBelowVaR ==
  HasMetrics =>
    \A q \in TailMetrics : FloatLeq(metrics[q[1]], metrics[q[2]])

\* the sum of the k smallest elements of the array
LowestSum(r, k) ==
  IF k = 0 THEN 0
  ELSE LET t == CHOOSE v \in Range(r) : HasRank(r, v, k - 1)
           below == {v \in Range(r) : v < t}
           n_below == Cardinality({i \in 1..Len(r) : r[i] < t})
       IN SumOver([v \in below |-> v * Cardinality({i \in 1..Len(r) : r[i] = v})], below)
            + (k - n_below) * t

\* x is the float64 mean of k numbers that sum to total tenths: nan for no
\* number, else the quotient by k of a float64 sum that is total tenths up to
\* its rounding
MeanOfSum(x, k, total) ==
  IF k = 0 THEN x = Rat(0, 0)
  ELSE IF "units" \in DOMAIN x THEN total = 0 /\ x.over = k
  ELSE "k" \in DOMAIN x /\ x.k = total /\ x.n = k

\* C13: every CVaR is the mean of exactly the first floor(n * p) elements of
\* the ascending returns: their sum over their number, the element at index
\* floor(n * p) left out.
C13_TailMean ==
  MetricsReturned =>
    \A q \in TailMetrics :
      LET k == (Len(returns) * q[3]) \div q[4]
      IN MeanOfSum(metrics[q[1]], k, LowestSum(returns, k))

C13_Witness ==
  /\ MetricsReturned /\ Len(returns) = 200
  /\ metrics.CVaR_95.n = 10
  /\ metrics.CVaR_95.k < 10 * metrics.VaR_95
  /\ metrics.CVaR_95.k > 10 * metrics.VaR_999

\* C14: the reported order statistics are non-decreasing in the level:
\* VaR_999 <= percentile_1 <= percentile_5 <= percentile_25 <= percentile_75
\* <= percentile_95 <= percentile_99.
C14_PercentileMonotone ==
  MetricsReturned =>
    /\ metrics.VaR_999 <= metrics.percentile_1
    /\ metrics.percentile_1 <= metrics.percentile_5
    /\ metrics.percentile_5 <= metrics.percentile_25
    /\ metrics.percentile_25 <= metrics.percentile_75
    /\ metrics.percentile_75 <= metrics.percentile_95
    /\ metrics.percentile_95 <= metrics.percentile_99

C14_Witness ==
  /\ MetricsReturned /\ Len(returns) = 200
  /\ returns[1] > metrics.percentile_1 /\ returns[1] < returns[2]
  /\ metrics.percentile_1 < metrics.percentile_5
  /\ metrics.percentile_5 < metrics.percentile_25
  /\ metrics.percentile_25 < metrics.percentile_75
  /\ metrics.percentile_75 < metrics.percentile_95

\* the row of the percentiles file for one percentile
TableRow(pct) ==
  exported.percentiles[CHOOSE j \in 1..Len(exported.percentiles) :
                         exported.percentiles[j].Percentile = FormatLabel(pct)]

\* a fraction that is the number v
RatEq(a, v) == a.den > 0 /\ a.num = v * a.den

\* C15: for each percentile the metrics record reports (1, 5, 25, 75, 95, 99)
\* the exported table holds the identical value, the nearest-rank percentile
\* sorted_returns[floor(n * p)].
C15_TableIsNearestRank ==
  HasExport =>
    /\ RatEq(TableRow(1).Value, metrics.percentile_1)
    /\ RatEq(TableRow(5).Value, metrics.percentile_5)
    /\ RatEq(TableRow(25).Value, metrics.percentile_25)
    /\ RatEq(TableRow(75).Value, metrics.percentile_75)
    /\ RatEq(TableRow(95).Value, metrics.percentile_95)
    /\ RatEq(TableRow(99).Value, metrics.percentile_99)

\* C18: when the standard deviation of the returns is 0, all returns being
\* equal, the metrics record reports skewness = 0, kurtosis = 0 and
\* sharpe_ratio = 0.
C18_DegenerateMoments ==
  (HasMetrics /\ Cardinality(Range(returns)) = 1) =>
    /\ metrics.skewness = Rat(0, 1)
    /\ metrics.kurtosis = Rat(0, 1)
    /\ metrics.sharpe_ratio = Rat(0, 1)

\* C19: the sample an export writes has exactly min(100000, S) rows, its rows
\* come from pairwise distinct path indices, and in every row the Return and
\* the Final_Value are those of the row's path: of every export, the first and
\* the later ones, whatever state the generator is in.
C19_SampleRows ==
  [][ export_count' = export_count + 1 =>
        LET rows == exported'.returns_sample
            S == Len(returns)
            size == IF S < SampleCap THEN S ELSE SampleCap
        IN IF Tabulated(S, rng_state)
             THEN /\ Len(rows) = size
                  /\ Len(sample_indices') = Len(rows)
                  /\ \A j \in 1..Len(rows) : sample_indices'[j] \in 1..S
                  /\ Cardinality({sample_indices'[j] : j \in 1..Len(rows)}) = Len(rows)
                  /\ \A j \in 1..Len(rows) :
                       /\ rows[j].Return = returns[sample_indices'[j]]
                       /\ rows[j].Final_Value = all_final_values[sample_indices'[j]]
             ELSE /\ rows.rows = size
                  /\ sample_indices' = [first |-> size,
                                        of |-> [shuffle_of |-> S, from |-> rng_state]]
                  /\ rows.Return.at = sample_indices'
                  /\ rows.Final_Value.at = sample_indices' ]_vars

C19_Witness ==
  /\ HasExport /\ Len(returns) = 1000
  /\ call_count = 1 /\ rng_state.word > 1000
  /\ Len(exported.returns_sample) = 1000
  /\ sample_indices[1] # 1 /\ sample_indices[2] # sample_indices[1] + 1
  /\ exported.returns_sample[1].Return # exported.returns_sample[2].Return

\* the sample of an array longer than the cap has the cap's number of rows
C19_WitnessCapped ==
  /\ HasExport /\ Len(returns) = SampleCap + 1
  /\ exported.returns_sample.rows = SampleCap

\* C20: generate_percentile_report, called on a percentiles file that holds
\* every row the report reads and with a numeric initial value, returns the
\* mapping of the markdown, recommendations and summary paths, never an empty
\* mapping.
C20_ReportPathsReturned ==
  mpc = "helper_returned" =>
    /\ report_files # Unset
    /\ DOMAIN report_files = {"markdown", "recommendations", "summary"}

ZeroVolatility == \A i \in 1..Len(portfolio_config.volatilities) :
                    portfolio_config.volatilities[i] = 0
ZeroExpectedReturn == \A i \in 1..Len(portfolio_config.expected_returns) :
                        portfolio_config.expected_returns[i] = 0

\* C16: with every volatility 0 all paths end at the same value, whatever was
\* drawn, and that value is the weighted sum of P0[i] * exp(mu[i] * T_years) for
\* the configured horizon: every term has no diffusion part and the exponent
\* mu[i] * T_years.
C16_ZeroVolDeterminism ==
  (/\ pc = "done" /\ batch_size >= 1 /\ SameLengths(portfolio_config)
   /\ ZeroVolatility /\ NSteps(time_horizon) >= 1) =>
    /\ \A a, b \in 1..Len(results.final_values) :
         results.final_values[a] = results.final_values[b]
    /\ \A k \in 1..Len(results.final_values) :
         \A i \in 1..Len(results.final_values[k]) :
           LET term == results.final_values[k][i]
           IN /\ term.diff = << >>
              /\ term.drift * time_horizon[2]
                   = 2 * RateScale * TradingDays
                       * portfolio_config.expected_returns[i] * time_horizon[1]

\* a computed return that is the float 0.0
ZeroReturn(ret) == "num" \in DOMAIN ret /\ ret.num = 0 /\ ret.den # 0

\* C17 (as stated): with every expected return 0 and every volatility 0 each
\* path ends at the initial portfolio value sum w[i] * P0[i] and its computed
\* return is exactly 0, for every weight vector, price vector and batch layout.
C17_WeightConsistency ==
  (/\ pc = "done" /\ batch_size >= 1 /\ SameLengths(portfolio_config)
   /\ ZeroVolatility /\ ZeroExpectedReturn) =>
    /\ Len(returns) = n_simulations
    /\ \A k \in 1..n_simulations :
         /\ ExponentFree(results.final_values[k])
         /\ PathProducts(results.final_values[k]) = initial_portfolio_value.of
         /\ "off" \in DOMAIN initial_portfolio_value
         /\ initial_portfolio_value.off = 0
         /\ ZeroReturn(results.returns[k])

\* C21 (as stated): whenever run_monte_carlo_simulation returns a result with
\* status 'completed', run_5M_simulation has been executed for the requested
\* number of simulations and the returned value carries that run's results.
C21_SimulationRuns ==
  (/\ integration_results # Unset
   /\ integration_results.status = "completed") =>
    /\ run_count >= 1
    /\ Len(all_final_values) = integration_results.n_simulations
    /\ metrics_calls = 1
    /\ {"final_values", "returns", "metrics"} \subseteq DOMAIN integration_results
\* the (paths x timesteps x assets) arrays that are held
LiveTensors ==
  (IF Len(Z_indep) > 0 THEN 1 ELSE 0) + (IF Len(Z_corr) > 0 THEN 1 ELSE 0)

\* C22 (as stated): at every point of a run at most one batch's shock tensor is
\* live beside the result vector: the independent draws become the correlated
\* draws in place, no second tensor of the same size being held with them, and
\* a batch's tensor is gone before the next batch's tensor is created.
C22_OneTensorLive ==
  /\ pc \in {"draw", "correlate", "reduce"} => LiveTensors <= 1
  /\ pc \in {"loop", "cholesky", "draw"} => LiveTensors = 0
\* C23: the seed is set at instantiation only: a batch of b paths draws the
\* b * n_steps * n_assets normals that follow the stream position, batch k+1
\* starting where batch k stopped, and no other step of a run moves or resets
\* the position.
C23_SeedOnce ==
  [][ /\ pc = "draw" =>
           LET drawn == rk_fill(rng_state,
                                batch_n_sims * NSteps(time_horizon) * NAssets, << >>)
           IN /\ rng_pos' = rng_pos + batch_n_sims * NSteps(time_horizon) * NAssets
              /\ Len(Z_indep') = batch_n_sims * NSteps(time_horizon) * NAssets
              /\ Z_indep' = drawn.values
              /\ rng_state' = drawn.state
      /\ pc' = "draw" =>
           rng_pos' = run_start_pos' + batch_start' * NSteps(time_horizon) * NAssets
      /\ (\/ pc \in {"loop", "cholesky", "correlate", "reduce", "store", "returns",
                      "metrics"}
          \/ run_count' = run_count + 1) =>
           rng_pos' = rng_pos /\ rng_state' = rng_state ]_vars

C23_Witness ==
  /\ pc = "correlate" /\ batch_idx >= 1 /\ batch_n_sims >= 1
  /\ rng_pos = run_start_pos + batch_end * NSteps(time_horizon) * NAssets
  /\ Len(Z_indep) >= 2
  /\ Z_indep # StandardNormal(rk_seed, batch_n_sims, NSteps(time_horizon), NAssets).values
\* C24: for every path b and timestep t of a batch the correlated vector
\* Z_corr[b, t, :] is L applied to Z_indep[b, t, :], the N components at flat
\* row b * n_steps + t, and to no component of another path or timestep.
C24_RowWiseTransform ==
  pc \in {"reduce", "store"} =>
    /\ Len(Z_corr) = batch_n_sims * NSteps(time_horizon) * NAssets
    /\ \A b \in 0..(batch_n_sims - 1) : \A t \in 0..(NSteps(time_horizon) - 1) :
         LET row == b * NSteps(time_horizon) + t
         IN \A i \in 1..NAssets :
              Z_corr[row * NAssets + i]
                = [j \in 1..NAssets |-> <<L[i][j], Z_indep[row * NAssets + j]>>]

C24_Witness ==
  /\ pc = "reduce" /\ batch_n_sims >= 2 /\ NSteps(time_horizon) >= 2 /\ NAssets >= 2
  /\ L[2][1] # 0
  /\ \E k \in 1..Len(Z_corr) : Z_corr[k][1][1] # 0 /\ Z_corr[k][2][1] # 0
  /\ Z_indep[1] # Z_indep[NAssets + 1]
\* C25: in a run (of batches of size >= 1) the metrics are computed exactly
\* once, after the last batch has written its slice: never during the batch
\* loop, never while an index of the result array is unwritten.
C25_MetricsOnce ==
  batch_size >= 1 =>
    /\ metrics_calls <= 1
    /\ (InBatch \/ pc = "loop") => metrics_calls = 0
    /\ pc = "done" => metrics_calls = 1
    /\ (pc \in {"returns", "metrics"} \/ metrics_calls = 1) =>
         /\ batch_idx = n_batches
         /\ Len(batch_log) = n_batches
         /\ Len(write_count) = n_simulations
         /\ \A p \in 1..n_simulations : write_count[p] = 1
         /\ \A p \in 1..n_simulations : all_final_values[p] # << >>

C25_Witness ==
  /\ pc = "done" /\ metrics_calls = 1 /\ run_count = 2
  /\ n_batches >= 3 /\ Len(batch_log) = n_batches
  /\ \A p \in 1..n_simulations : write_count[p] = 1
\* orders of 1..n: every order of a short array, two affine orders of a long one
Reorderings(n) ==
  IF n <= MaxLen + 1
    THEN {p \in [1..n -> 1..n] : \A i, j \in 1..n : p[i] = p[j] => i = j}
    ELSE {np_array([j \in 1..n |-> ((a * (j - 1) + 5) % n) + 1]) :
            a \in {b \in {1, 13} : GCD(b, n) = 1}}

\* the array with its elements in the order p
Permuted(r, p) == np_array([j \in 1..Len(r) |-> r[p[j]]])

\* C26 (as stated): _calculate_metrics gives every permutation of a returns
\* array the same value for every metric: the record depends on the multiset of
\* returns only.
C26_PermutationInvariant ==
  HasMetrics =>
    \A p \in Reorderings(Len(returns)) :
      calculate_metrics(Permuted(returns, p), metrics.std_return = Rat(0, 1)) = metrics

\* the inputs a run of S >= 1 paths over at least one timestep can have
DrawingRun ==
  /\ n_simulations >= 1 /\ batch_size >= 1 /\ NSteps(time_horizon) >= 1

\* the result array of a run whose first draw is taken in the generator state g
ValuesFrom(g) ==
  LET Zc == MatmulLT(StandardNormal(g, n_simulations, NSteps(time_horizon),
                                    NAssets).values,
                     Cholesky(portfolio_config.correlation_matrix), NAssets)
  IN [p \in 1..n_simulations |->
        PathValue(portfolio_config, Zc, p - 1, NSteps(time_horizon), NAssets)]

\* C27, as stated: every second run of an engine starts at a position greater
\* than 0, the seed position.
C27_SecondRunNeverAtSeed ==
  [][ (DrawingRun /\ run_count' >= 2) => run_start_pos' > 0 ]_vars

\* the words the generator has produced when a run that began at the seed ends
WordAfterSeededRun ==
  rk_fill(rk_seed, n_simulations * NSteps(time_horizon) * NAssets, << >>).state.word

\* C27: the generator is state shared by the runs, the exports and the direct
\* batch calls of an engine, and by every engine of the process: a run starts
\* in the state the generator stands in and leaves it S * n_steps * N draws
\* further, an export leaves it further by the words of its shuffle, and the
\* result array of a run is the one computed from the state it started in.  A
\* run that is the first call after the construction starts at the seed.  The
\* generator goes back to the seed only when an engine is constructed, directly
\* or by run_monte_carlo_simulation, between two calls: the first run after
\* that is the one that reproduces the seeded array.
C27_SharedGenerator ==
  [][ DrawingRun =>
        /\ run_count' = run_count + 1 =>
              /\ rng_pos' = rng_pos /\ rng_state' = rng_state
              /\ run_start_pos' = rng_pos /\ run_start_state' = rng_state
              /\ (run_count = 0 /\ call_count = 0) => run_start_state' = rk_seed
        /\ (pc # "done" /\ pc' = "done") =>
              /\ rng_pos' = run_start_pos' + n_simulations * NSteps(time_horizon) * NAssets
              /\ rng_pos' > run_start_pos'
              /\ all_final_values' = ValuesFrom(run_start_state')
        /\ export_count' = export_count + 1 =>
              /\ rng_pos' = rng_pos
              /\ rng_state'.word >= rng_state.word
              /\ n_simulations >= 2 => rng_state'.word > rng_state.word
        /\ (rng_state' # rng_state /\ rng_state' = rk_seed) =>
              /\ BetweenCalls /\ pc' = pc
              /\ run_count' = run_count /\ call_count' = call_count + 1
              /\ mpc' = mpc
              /\ rng_pos' = 0 ]_vars

C27_Witness ==
  /\ DrawingRun /\ n_simulations >= 2
  /\ pc = "done" /\ run_count = 2 /\ call_count = 1
  /\ sample_indices # << >>
  /\ run_start_pos = n_simulations * NSteps(time_horizon) * NAssets
  /\ run_start_state.word > WordAfterSeededRun
  /\ rng_pos = run_start_pos + n_simulations * NSteps(time_horizon) * NAssets
  /\ all_final_values # ValuesFrom(rk_seed)

\* C28: for a returns array of n >= 1 elements the index int(n * p) of every
\* level the metrics read lies in 0..n-1, so each percentile and VaR is an
\* element of the array; the metrics computation fails on the empty array and
\* on no other.
C28_IndexInRange ==
  LET n == Len(returns)
      returns_sorted == np_sort(returns)
  IN /\ n >= 1 =>
          \A p \in MetricLevels : RankIndex(n, p[1], p[2]) \in 0..(n - 1)
     /\ mpc = "failed" => n = 0
     /\ (n = 0 /\ mpc # "metrics") =>
          (mpc = "failed" /\ (call_count = 0 => error = "IndexError"))
     /\ MetricsReturned =>
          /\ metrics.VaR_999 = returns_sorted[RankIndex(n, 1, 1000) + 1]
          /\ metrics.percentile_99 = returns_sorted[RankIndex(n, 99, 100) + 1]
          /\ \A f \in {"percentile_1", "percentile_5", "percentile_25", "percentile_75",
                        "percentile_95", "percentile_99", "VaR_95", "VaR_99", "VaR_999"} :
                metrics[f] \in Range(returns)

C28_Witness ==
  /\ MetricsReturned /\ Len(returns) = 1
  /\ RankIndex(1, 99, 100) = 0
  /\ metrics.percentile_99 = returns[1]
  /\ metrics.VaR_999 = returns[1]

\* a configuration of non-negative weights, positive initial prices and at
\* least one positive weight
LongOnly(cfg) ==
  /\ \A i \in 1..Len(cfg.weights) : cfg.weights[i] >= 0
  /\ \A i \in 1..Len(cfg.initial_prices) : cfg.initial_prices[i] > 0
  /\ \E i \in 1..Len(cfg.weights) : cfg.weights[i] > 0

\* a computed return greater than -1: a rational above -1, a rounding
\* difference of the two sums, or a path that started from the initial value
\* and whose weighted terms all keep an exponent of -KeptInRounding or more
AboveMinusOne(ret) ==
  IF "num" \in DOMAIN ret THEN ret.den > 0 /\ ret.num > -ret.den
  ELSE IF "final_minus_initial" \in DOMAIN ret THEN ret.initial.sum > 0
  ELSE /\ PathProducts(ret.final) = ret.initial.of /\ ret.initial.sum > 0
       /\ \A t \in 1..Len(ret.final) :
            /\ ret.final[t].w >= 0 /\ ret.final[t].p0 > 0
            /\ ExponentCeil(ret.final[t]) <= ExpNormal
            /\ ret.final[t].w > 0 => ExponentFloor(ret.final[t]) >= -KeptInRounding
       /\ \E t \in 1..Len(ret.final) : ret.final[t].w > 0

\* a computed return that is the float -1.0
MinusOne(ret) == "num" \in DOMAIN ret /\ ret.den > 0 /\ ret.num = -ret.den

\* (mu - 0.5 * sigma^2) * T and the largest sigma * sqrt(dt) * (sum of shocks)
\* of asset i over the horizon, from the configuration: the exponent of the
\* asset's final price lies within ExponentLow .. ExponentHigh on every path
ExponentDrift(cfg, T, i) ==
  NSteps(T) * (2 * cfg.expected_returns[i] * RateScale
                 - cfg.volatilities[i] * cfg.volatilities[i])
ExponentSpread(cfg, T, i) ==
  LET row == Cholesky(cfg.correlation_matrix)[i]
  IN IF cfg.volatilities[i] = 0 \/ NSteps(T) = 0 THEN 0
     ELSE CeilDiv(Abs(cfg.volatilities[i]) * NormalBound * NSteps(T)
                    * SeqSum([j \in 1..Len(row) |-> Abs(row[j]) + 1]),
                  RateScale * CorrScale * ISqrt(TradingDays))
ExponentLow(cfg, T, i) ==
  (ExponentDrift(cfg, T, i) \div ExponentUnits) - ExponentSpread(cfg, T, i)
ExponentHigh(cfg, T, i) ==
  ExponentSpread(cfg, T, i) - ((-ExponentDrift(cfg, T, i)) \div ExponentUnits)

\* one price per weight, and every asset's exponent between -KeptInRounding
\* and ExpNormal on every path
ModerateExponents(cfg, T) ==
  /\ Len(cfg.initial_prices) = Len(cfg.weights)
  /\ \A i \in 1..Len(cfg.weights) :
       /\ ExponentLow(cfg, T, i) >= -KeptInRounding
       /\ ExponentHigh(cfg, T, i) <= ExpNormal

\* one price per weight, and every asset's exponent at most -bound on every path
ExponentsBelow(cfg, T, bound) ==
  /\ Len(cfg.initial_prices) = Len(cfg.weights)
  /\ \A i \in 1..Len(cfg.weights) : ExponentHigh(cfg, T, i) <= -bound

CountEqual(r, v) == Cardinality({k \in 1..Len(r) : r[k] = v})

\* C30: the probability metrics of a non-empty returns array are fractions of
\* its n paths, each in [0, 1]; the paths counted by prob_loss and prob_profit
\* and those of return exactly 0 are all n paths, a return on a threshold
\* being counted on neither side of it; and the loss and the profit
\* probabilities decrease as the threshold moves away from 0.
C30_ProbabilitiesConsistent ==
  MetricsReturned =>
    LET n == Len(returns)
        m == metrics
    IN /\ n >= 1
       /\ \A f \in {"prob_loss", "prob_loss_10", "prob_loss_20", "prob_loss_50",
                     "prob_profit", "prob_profit_10", "prob_profit_20",
                     "prob_profit_50"} :
             m[f].den = n /\ 0 <= m[f].num /\ m[f].num <= n
       /\ m.prob_loss.num + m.prob_profit.num <= n
       /\ n - (m.prob_loss.num + m.prob_profit.num) = CountEqual(returns, 0)
       /\ m.prob_loss_50.num <= m.prob_loss_20.num
       /\ m.prob_loss_20.num <= m.prob_loss_10.num
       /\ m.prob_loss_10.num <= m.prob_loss.num
       /\ m.prob_profit_50.num <= m.prob_profit_20.num
       /\ m.prob_profit_20.num <= m.prob_profit_10.num
       /\ m.prob_profit_10.num <= m.prob_profit.num
       /\ m.prob_loss.num - m.prob_loss_10.num >= CountEqual(returns, -1)
       /\ m.prob_profit_10.num - m.prob_profit_20.num >= CountEqual(returns, 2)

C30_Witness ==
  /\ MetricsReturned /\ Len(returns) = 3
  /\ CountEqual(returns, 0) = 1 /\ CountEqual(returns, -1) = 1
  /\ CountEqual(returns, 2) = 1
  /\ metrics.prob_loss = Rat(1, 3) /\ metrics.prob_loss_10 = Rat(0, 3)
  /\ metrics.prob_profit = Rat(1, 3) /\ metrics.prob_profit_20 = Rat(0, 3)

====
